---- MODULE Spec2Model ----
(***************************************************************************)
(* DesignForge: the agent conversation controller (DesignForgeAgent in     *)
(* packages/core/src/agent.ts) and the tool bridge (McpBridge in           *)
(* packages/core/src/mcp-bridge.ts), as a state machine of one run().      *)
(*                                                                         *)
(* Strings are modelled by what the code reads of them.  A text the code   *)
(* searches (the LLM's response text) is a sequence of characters followed *)
(* by `pad` filler characters that occur in no completion indicator; a     *)
(* text the code only measures, slices and forwards (tool results, prompt  *)
(* sections) is its length together with a tag naming where it came from.  *)
(***************************************************************************)
EXTENDS Integers, Sequences, FiniteSets, TLC

\* ------------------------------------------------------------------------
\* Bounds of the model
\* ------------------------------------------------------------------------

\* config.maxTurns is drawn from 1..MaxTurnsBound
MaxTurnsBound == 4

\* blank lines between a label and the fence are drawn from 0..MaxGapLines
MaxGapLines == 1

\* ------------------------------------------------------------------------
\* Program constants
\* ------------------------------------------------------------------------

MAX_TOOL_RESULT_CHARS == 6000
MAX_CONSECUTIVE_DUPLICATES == 2
MAX_HISTORY_CHARS == 100000
\* the lookback of parseCodeBlocks' strategy 4
LOOKBACK_CHARS == 200
\* prefetchData's per-category caps and the length of '\n[TRUNCATED]'
FIGMA_PREFETCH_CAP == 8000
COMPONENTS_PREFETCH_CAP == 6000
TOKENS_PREFETCH_CAP == 4000
PrefetchTruncMarkLen == 12
\* the first 500 characters of the cached result go into the duplicate directive
DUP_EXCERPT_CHARS == 500
\* the first 1500 characters of the first cached result go into the rewrite
SUMMARY_EXCERPT_CHARS == 1500

\* lengths of the literal parts of the strings the agent builds
TruncNoticeHeadLen == 33
TruncNoticeTailLen == 86
DupDirectiveHeadLen == 38
DupDirectiveTailLen == 223
SynthAssistantLen == 164
SummaryHeadLen == 53
NoSummaryLen == 51
RedirectHeadLen == 40
RedirectTailLen == 300
GuidancePhase2Len == 239
GuidancePhase3Len == 315
GuidanceFilesFixedLen == 152
GuidanceContinueLen == 44
PromptHeaderFixedLen == 87
PromptFigmaHeadLen == 98
PromptComponentsHeadLen == 131
PromptTokensHeadLen == 37
PromptTaskLen == 570
PromptExecuteLen == 338
MockFigmaResultLen == 475
MockDesignSystemResultLen == 624
MockGenericResultLen == 26
\* JSON.stringify({ error: true, message: '' }).length
ErrorPayloadFixedLen == 27
\* 'Unknown tool: "' + '". Available: ' and the two escaped quotes
UnknownToolFixedLen == 31
\* 'Server "' + '" is not connected' and the two escaped quotes
NotConnectedFixedLen == 28
\* {"type":"tool_use","id":"","name":"","input":}
ToolUseJsonFixedLen == 46
\* {"type":"text","text":""}
TextBlockJsonFixedLen == 26
\* {"type":"tool_result","tool_use_id":"","content":""}
ToolResultJsonFixedLen == 52
\* the length of a tool_use id such as 'tool-1'
ToolUseIdLen == 6

\* ------------------------------------------------------------------------
\* Small helpers
\* ------------------------------------------------------------------------

Min(a, b) == IF a <= b THEN a ELSE b

Max(a, b) == IF a >= b THEN a ELSE b

RECURSIVE SumSeq(_)
SumSeq(s) == IF s = <<>> THEN 0 ELSE Head(s) + SumSeq(Tail(s))

\* String(n).length for n >= 0
RECURSIVE NumDigits(_)
NumDigits(n) == IF n < 10 THEN 1 ELSE 1 + NumDigits(n \div 10)


\* ------------------------------------------------------------------------
\* Response text and completion detection
\* ------------------------------------------------------------------------

UpperChars ==
    <<"A","B","C","D","E","F","G","H","I","J","K","L","M","N","O","P","Q","R","S","T","U","V","W","X","Y","Z">>
LowerChars ==
    <<"a","b","c","d","e","f","g","h","i","j","k","l","m","n","o","p","q","r","s","t","u","v","w","x","y","z">>

\* String.prototype.toLowerCase on one character
LowerChar(c) ==
    IF \E i \in 1..Len(UpperChars) : UpperChars[i] = c
    THEN LowerChars[CHOOSE i \in 1..Len(UpperChars) : UpperChars[i] = c]
    ELSE c

ToLowerCase(s) == [i \in 1..Len(s) |-> LowerChar(s[i])]

\* String.prototype.includes
Includes(hay, needle) ==
    \E i \in 0..(Len(hay) - Len(needle)) :
        \A j \in 1..Len(needle) : hay[i + j] = needle[j]

IndWorkflowComplete ==
    <<"w","o","r","k","f","l","o","w"," ","c","o","m","p","l","e","t","e">>
IndImplementationFinished ==
    <<"i","m","p","l","e","m","e","n","t","a","t","i","o","n"," ","f","i","n","i","s","h","e","d">>
IndAllPhasesCompleted ==
    <<"a","l","l"," ","p","h","a","s","e","s"," ","c","o","m","p","l","e","t","e","d">>
IndDesignforgeComplete ==
    <<"d","e","s","i","g","n","f","o","r","g","e"," ","c","o","m","p","l","e","t","e">>
IndExecutionComplete ==
    <<"e","x","e","c","u","t","i","o","n"," ","c","o","m","p","l","e","t","e">>

completionIndicators ==
    << IndWorkflowComplete, IndImplementationFinished, IndAllPhasesCompleted,
       IndDesignforgeComplete, IndExecutionComplete >>

\* A response text: `body` followed by `pad` filler characters ('#', which is
\* in no indicator, so no match can reach into the filler); `blocks` holds the
\* filePath of every block parseCodeBlocks(text) returns for it.
MkText(body, pad, blocks) == [body |-> body, pad |-> pad, blocks |-> blocks]

EmptyText == MkText(<<>>, 0, <<>>)

TextLen(t) == Len(t.body) + t.pad

\* textContent.join('\n') for the text blocks of one response (at most one
\* text block per response in this model)
FullText(texts) == IF texts = <<>> THEN EmptyText ELSE texts[1]

\* isWorkflowComplete without the toLowerCase
isWorkflowCompleteNoLower(text) ==
    \E k \in 1..Len(completionIndicators) :
        Includes(text.body, completionIndicators[k])

isWorkflowComplete(text) ==
    LET lowerText == ToLowerCase(text.body)
    IN  \E k \in 1..Len(completionIndicators) :
            Includes(lowerText, completionIndicators[k])

\* ------------------------------------------------------------------------
\* JavaScript Map: an insertion-ordered sequence of [k, v] entries
\* ------------------------------------------------------------------------

MapHas(m, k) == \E i \in 1..Len(m) : m[i].k = k

MapGet(m, k) == m[CHOOSE i \in 1..Len(m) : m[i].k = k].v

\* Map.prototype.set: an existing key keeps its position
MapSet(m, k, v) ==
    IF MapHas(m, k)
    THEN [i \in 1..Len(m) |-> IF m[i].k = k THEN [k |-> k, v |-> v] ELSE m[i]]
    ELSE Append(m, [k |-> k, v |-> v])


\* map.get(k) || 0
MapCount(m, k) == IF MapHas(m, k) THEN MapGet(m, k) ELSE 0

\* ------------------------------------------------------------------------
\* Tool requests and their cache key
\* ------------------------------------------------------------------------

\* The input object of a tool_use block: its properties in insertion order
ArgsA == << <<"fileKey", "test123">> >>
ArgsB == << <<"fileKey", "test123">>, <<"nodeId", "1-2">> >>

\* JSON.stringify of an input object whose values are strings, as tokens
RECURSIVE StringifyProps(_)
StringifyProps(props) ==
    IF props = <<>> THEN <<>>
    ELSE << props[1][1], ":", props[1][2] >>
         \o (IF Len(props) > 1 THEN <<",">> ELSE <<>>)
         \o StringifyProps(Tail(props))

JSONstringify(input) == <<"{">> \o StringifyProps(input) \o <<"}">>

\* JSON.stringify(input).length: {"k":"v","k2":"v2"}
JSONstringifyLen(input) ==
    2 + SumSeq([i \in 1..Len(input) |-> Len(input[i][1]) + Len(input[i][2]) + 5])
      + Max(0, Len(input) - 1)

\* const callKey = `${toolUse.name}:${JSON.stringify(toolUse.input)}`
CallKey(name, input) == <<name, ":">> \o JSONstringify(input)

\* ------------------------------------------------------------------------
\* Tool results
\* ------------------------------------------------------------------------

\* A result text: its length, where it came from, and for a duplicate
\* directive the number of characters it quotes from the cached result
MkResult(len, tag) == [len |-> len, tag |-> tag, excerpt |-> 0]

capToolResult(result) ==
    IF result.len <= MAX_TOOL_RESULT_CHARS THEN result
    ELSE MkResult(MAX_TOOL_RESULT_CHARS + TruncNoticeHeadLen + NumDigits(result.len)
                     + TruncNoticeTailLen, "truncated")

\* The directive returned for a duplicate call: head + name + tail +
\* cached.slice(0, 500) + '...'
DuplicateDirective(name, cached) ==
    [ len |-> DupDirectiveHeadLen + Len(name) + DupDirectiveTailLen
                + Min(DUP_EXCERPT_CHARS, cached.len) + 3,
      tag |-> "dup",
      excerpt |-> Min(DUP_EXCERPT_CHARS, cached.len) ]

simulateToolResult(toolName) ==
    IF toolName = "figma" THEN MkResult(MockFigmaResultLen, "data")
    ELSE IF toolName = "design-system" THEN MkResult(MockDesignSystemResultLen, "data")
    ELSE MkResult(MockGenericResultLen, "data")

\* ------------------------------------------------------------------------
\* McpBridge: pure parts
\* ------------------------------------------------------------------------

NULL == [null |-> TRUE]

\* JSON.stringify({ error: true, message }) for a message of msgLen characters
ErrorPayload(msgLen) == MkResult(ErrorPayloadFixedLen + msgLen, "error")

\* [...this.toolMap.keys()].join(', ').length
JoinedKeysLen(m) ==
    SumSeq([i \in 1..Len(m) |-> Len(m[i].k)]) + 2 * Max(0, Len(m) - 1)

\* What a provider answers to client.callTool: text content of some length,
\* a result flagged isError, or a rejected call, each with a message length
TextReply(len) == [kind |-> "text", len |-> len]
IsErrorReply(len) == [kind |-> "isError", len |-> len]
ThrowReply(len) == [kind |-> "throw", len |-> len]

\* a callTool whose error payloads carry no message
callToolDropsMessage(name, tMap, cl, reply) ==
    IF ~MapHas(tMap, name) \/ ~MapHas(cl, MapGet(tMap, name))
    THEN ErrorPayload(0)
    ELSE IF reply.kind = "text" THEN MkResult(reply.len, "data")
    ELSE ErrorPayload(0)

\* McpBridge.callTool: the string it resolves to, given the provider's answer
callTool(name, tMap, cl, reply) ==
    IF ~MapHas(tMap, name)
    THEN ErrorPayload(UnknownToolFixedLen + Len(name) + JoinedKeysLen(tMap))
    ELSE IF ~MapHas(cl, MapGet(tMap, name))
    THEN ErrorPayload(NotConnectedFixedLen + Len(MapGet(tMap, name)))
    ELSE IF reply.kind = "text" THEN MkResult(reply.len, "data")
    ELSE ErrorPayload(reply.len)

\* does callTool reach client.callTool of a provider
ReachesProvider(name, tMap, cl) ==
    MapHas(tMap, name) /\ MapHas(cl, MapGet(tMap, name))

\* the discovery loop of connect() for one server: toolMap.set and tools.push
RECURSIVE RegisterTools(_, _, _, _)
RegisterTools(tMap, descs, serverName, toolNames) ==
    IF toolNames = <<>> THEN [toolMap |-> tMap, tools |-> descs]
    ELSE RegisterTools(MapSet(tMap, Head(toolNames), serverName),
                       Append(descs, [name |-> Head(toolNames), serverName |-> serverName]),
                       serverName, Tail(toolNames))

\* ------------------------------------------------------------------------
\* DesignForgeAgent: pure parts
\* ------------------------------------------------------------------------

\* a url as the parts parseFigmaUrl's two patterns read: the path segments
\* and the value of the node-id query parameter ("" when there is none)
parseFigmaUrl(url) ==
    LET hits == { i \in 1..(Len(url.path) - 1) :
                    url.path[i] \in {"design", "file"} /\ url.path[i + 1] # "" }
    IN  IF hits = {} THEN [ok |-> FALSE, fileKey |-> "", nodeId |-> ""]
        ELSE [ ok |-> TRUE,
               fileKey |-> url.path[(CHOOSE i \in hits : \A j \in hits : i <= j) + 1],
               nodeId |-> url.nodeId ]

\* raw.length > cap ? raw.slice(0, cap) + '\n[TRUNCATED]' : raw
PrefetchCap(raw, cap) ==
    IF raw.len > cap THEN MkResult(cap + PrefetchTruncMarkLen, "truncated") ELSE raw

\* JavaScript truthiness of a `string | null` field
Truthy(v) == v # NULL /\ v.len > 0

EmptyContext ==
    [figmaData |-> NULL, naosComponents |-> NULL, naosTokens |-> NULL, naosIcons |-> NULL]

\* prefetch mode only when every category was fetched
IsPrefetchModeAllCategories(pre) ==
    /\ pre # NULL
    /\ Truthy(pre.figmaData)
    /\ Truthy(pre.naosComponents)
    /\ Truthy(pre.naosTokens)

\* !!(this.prefetched && this.prefetched.figmaData)
IsPrefetchMode(pre) == pre # NULL /\ Truthy(pre.figmaData)

MockToolNames == <<"figma", "design-system">>

\* buildTools: the names of the tool schema
buildTools(hasBridge, mcpTools, blocked) ==
    LET filtered == IF blocked # {}
                    THEN SelectSeq(mcpTools, LAMBDA t : t.name \notin blocked)
                    ELSE mcpTools
    IN  IF hasBridge /\ filtered # <<>>
        THEN [i \in 1..Len(filtered) |-> filtered[i].name]
        ELSE MockToolNames

buildSystemPrompt(pre) == IF IsPrefetchMode(pre) THEN "prefetched" ELSE "agentic"

\* buildUserPrompt: the length of parts.join('\n') and which closing section
buildUserPrompt(pre, config) ==
    LET header == PromptHeaderFixedLen + config.figmaUrl.len + config.outputPath.len
                    + NumDigits(config.minCoverage)
        sections ==
            IF pre # NULL
            THEN (IF Truthy(pre.figmaData)
                  THEN <<PromptFigmaHeadLen + pre.figmaData.len>> ELSE <<>>)
                 \o (IF Truthy(pre.naosComponents)
                     THEN <<PromptComponentsHeadLen + pre.naosComponents.len>> ELSE <<>>)
                 \o (IF Truthy(pre.naosTokens)
                     THEN <<PromptTokensHeadLen + pre.naosTokens.len>> ELSE <<>>)
                 \o <<PromptTaskLen>>
            ELSE <<PromptExecuteLen>>
    IN  [ len |-> header + SumSeq(sections) + Len(sections),
          closing |-> IF pre # NULL THEN "task-no-tools" ELSE "execute-workflow",
          embeds |-> IF pre = NULL THEN {}
                     ELSE { c \in {"figmaData", "naosComponents", "naosTokens"} :
                              Truthy(pre[c]) } ]

\* buildPhaseGuidance: which guidance and its length
\* a selection that looks at the written files first
buildPhaseGuidanceFilesFirst(calledCategories, writtenFiles) ==
    IF writtenFiles > 0
    THEN [kind |-> "files", len |-> GuidanceFilesFixedLen + NumDigits(writtenFiles)]
    ELSE IF "figma" \in calledCategories /\ "naos" \notin calledCategories
    THEN [kind |-> "phase2", len |-> GuidancePhase2Len]
    ELSE IF "figma" \in calledCategories /\ "naos" \in calledCategories
    THEN [kind |-> "phase3", len |-> GuidancePhase3Len]
    ELSE [kind |-> "continue", len |-> GuidanceContinueLen]

buildPhaseGuidance(calledCategories, writtenFiles) ==
    IF "figma" \in calledCategories /\ "naos" \notin calledCategories
    THEN [kind |-> "phase2", len |-> GuidancePhase2Len]
    ELSE IF "figma" \in calledCategories /\ "naos" \in calledCategories /\ writtenFiles = 0
    THEN [kind |-> "phase3", len |-> GuidancePhase3Len]
    ELSE IF writtenFiles > 0
    THEN [kind |-> "files", len |-> GuidanceFilesFixedLen + NumDigits(writtenFiles)]
    ELSE [kind |-> "continue", len |-> GuidanceContinueLen]

\* ------------------------------------------------------------------------
\* file-writer: parseCodeBlocks
\* ------------------------------------------------------------------------
\* The text handed to parseCodeBlocks is a sequence of characters; positions
\* are 1-based (a JavaScript index plus one).

\* the character ` (which a TLA+ string cannot hold)
Backtick == "BACKTICK"

Digits == {"0","1","2","3","4","5","6","7","8","9"}

\* \w
WordChars == { LowerChars[i] : i \in 1..Len(LowerChars) } \cup
             { UpperChars[i] : i \in 1..Len(UpperChars) } \cup Digits \cup {"_"}

\* the line terminators of a JavaScript regular expression: `.` matches none
\* of them, and with the m flag ^ and $ match next to each of them
LineTerminators == {"\n", "\r"}

\* [ \t]
HorizontalSpace == {" ", "\t"}

\* \s, and what trim() and trimEnd() strip
WhiteSpace == HorizontalSpace \cup LineTerminators

\* the character at position i, "" outside the string
CharAt(s, i) == IF i \in 1..Len(s) THEN s[i] ELSE ""

\* length of the longest run of characters of `class` that starts at i (X*)
RECURSIVE RunLen(_, _, _)
RunLen(s, i, class) ==
    IF i > Len(s) \/ s[i] \notin class THEN 0 ELSE 1 + RunLen(s, i + 1, class)

\* length of the longest run of characters outside `class` that starts at i
RECURSIVE RunLenNot(_, _, _)
RunLenNot(s, i, class) ==
    IF i > Len(s) \/ s[i] \in class THEN 0 ELSE 1 + RunLenNot(s, i + 1, class)

\* the literal `lit` stands at position i
MatchesAt(s, i, lit) ==
    i >= 1 /\ i + Len(lit) - 1 <= Len(s) /\ SubSeq(s, i, i + Len(lit) - 1) = lit

\* ^ and $ under the m flag
AtLineStart(s, i) == i = 1 \/ CharAt(s, i - 1) \in LineTerminators
AtLineEnd(s, i) == i = Len(s) + 1 \/ CharAt(s, i) \in LineTerminators

\* String.prototype.trimEnd, trimStart, trim
RECURSIVE trimEnd(_)
trimEnd(s) ==
    IF s # <<>> /\ s[Len(s)] \in WhiteSpace THEN trimEnd(SubSeq(s, 1, Len(s) - 1)) ELSE s

trimStart(s) == SubSeq(s, 1 + RunLen(s, 1, WhiteSpace), Len(s))

trim(s) == trimEnd(trimStart(s))

\* content.split('\n')[0]
FirstLine(s) == SubSeq(s, 1, RunLenNot(s, 1, {"\n"}))

\* content.split('\n').slice(1).join('\n')
AfterFirstLine(s) == SubSeq(s, RunLenNot(s, 1, {"\n"}) + 2, Len(s))

Fence == <<Backtick,Backtick,Backtick>>

NoMatch == [index |-> 0]

\* [ \t]* after the language tag
FenceGapAnySpace(text, i) == RunLen(text, i, WhiteSpace)

FenceGap(text, i) == RunLen(text, i, HorizontalSpace)

\* CODE_FENCE_REGEX tried at position i: the match that starts there, or NoMatch
FenceMatchAt(text, i) ==
    IF ~(AtLineStart(text, i) /\ MatchesAt(text, i, Fence)) THEN NoMatch
    ELSE LET lang == i + 3
             gap == lang + RunLen(text, lang, WordChars)
             info == gap + FenceGap(text, gap)
             eol == info + RunLenNot(text, info, LineTerminators)
             closers == { c \in (eol + 1)..(Len(text) - 2) :
                             /\ AtLineStart(text, c)
                             /\ MatchesAt(text, c, Fence)
                             /\ AtLineEnd(text, c + 3) }
         IN  IF CharAt(text, eol) # "\n" \/ closers = {} THEN NoMatch
             ELSE LET close == CHOOSE c \in closers : \A d \in closers : c <= d
                  IN  [ index |-> i,
                        language |-> SubSeq(text, lang, gap - 1),
                        infoString |-> SubSeq(text, info, eol - 1),
                        content |-> SubSeq(text, eol + 1, close - 1),
                        lastIndex |-> close + 3 ]

\* the while loop over CODE_FENCE_REGEX.exec(text): every match from
\* lastIndex on, in order
RECURSIVE FenceMatches(_, _)
FenceMatches(text, lastIndex) ==
    LET starts == { i \in lastIndex..Len(text) : FenceMatchAt(text, i) # NoMatch }
    IN  IF starts = {} THEN <<>>
        ELSE LET match == FenceMatchAt(text, CHOOSE i \in starts : \A j \in starts : i <= j)
             IN  <<match>> \o FenceMatches(text, match.lastIndex)

\* the extensions FILE_EXTENSION_REGEX accepts
FileExtensions ==
    { <<"t","s">>, <<"t","s","x">>, <<"j","s">>, <<"j","s","x">>, <<"c","s","s">>, <<"s","c","s","s">>, <<"l","e","s","s">>, <<"j","s","o","n">>, <<"m","d">>,
      <<"h","t","m","l">>, <<"y","a","m","l">>, <<"y","m","l">> }

\* FILE_EXTENSION_REGEX.test(s)
HasFileExtension(s) ==
    \E ext \in FileExtensions :
        /\ Len(s) > Len(ext)
        /\ s[Len(s) - Len(ext)] = "."
        /\ ToLowerCase(SubSeq(s, Len(s) - Len(ext) + 1, Len(s))) = ext

\* length of the run of characters of `class` that ends s
RECURSIVE TrailLen(_, _)
TrailLen(s, class) ==
    IF s = <<>> \/ s[Len(s)] \notin class THEN 0
    ELSE 1 + TrailLen(SubSeq(s, 1, Len(s) - 1), class)

\* X+\.\w+ matches the whole of s, where X is any character outside `excluded`
IsDottedName(s, excluded) ==
    LET dot == Len(s) - TrailLen(s, WordChars)
    IN  /\ dot >= 2
        /\ dot < Len(s)
        /\ s[dot] = "."
        /\ \A i \in 1..(dot - 1) : s[i] \notin excluded

\* the greatest member of a non-empty set of numbers
Greatest(S) == CHOOSE a \in S : \A b \in S : b <= a

\* the least member of a non-empty set of numbers
Least(S) == CHOOSE a \in S : \A b \in S : a <= b

\* a strategy that found nothing leaves filePath null; "" stands for null
\* (both are falsy, and no strategy captures an empty string)
NoPath == <<>>

FilenameLiteral == <<"f","i","l","e","n","a","m","e">>

\* infoString.match(FILENAME_ATTR_REGEX) tried at position i: capture 1 or NoPath
FilenameAttrAt(info, i) ==
    LET eq == i + Len(FilenameLiteral) + RunLen(info, i + Len(FilenameLiteral), WhiteSpace)
        quote == eq + 1 + RunLen(info, eq + 1, WhiteSpace)
        len == RunLenNot(info, quote + 1, {"\""})
    IN  IF /\ MatchesAt(info, i, FilenameLiteral)
           /\ CharAt(info, eq) = "="
           /\ CharAt(info, quote) = "\""
           /\ len >= 1
           /\ CharAt(info, quote + 1 + len) = "\""
        THEN SubSeq(info, quote + 1, quote + len)
        ELSE NoPath

\* Strategy 1: filename="..." attribute in the info string
FilenameAttrPath(info) ==
    LET starts == { i \in 1..Len(info) : FilenameAttrAt(info, i) # NoPath }
    IN  IF starts = {} THEN NoPath ELSE FilenameAttrAt(info, Least(starts))

\* Strategy 2: the info string itself, when it ends in a file extension
InfoStringPath(info) ==
    LET candidate == trim(info)
    IN  IF candidate # <<>> /\ HasFileExtension(candidate) THEN candidate ELSE NoPath

CommentLiteral == <<"/","/">>

\* firstLine.match(FIRST_LINE_COMMENT_REGEX): capture 1 or NoPath
FirstLineCommentMatch(firstLine) ==
    LET end == Len(trimEnd(firstLine))
        from == Len(CommentLiteral) + 1
        skips == { a \in 0..RunLen(firstLine, from, WhiteSpace) :
                      IsDottedName(SubSeq(firstLine, from + a, end), LineTerminators) }
    IN  IF MatchesAt(firstLine, 1, CommentLiteral) /\ skips # {}
        THEN SubSeq(firstLine, from + Greatest(skips), end)
        ELSE NoPath

\* Strategy 3: the first line of the content is a comment with a file path
FirstLineCommentPath(content) ==
    LET commentMatch == FirstLineCommentMatch(trim(FirstLine(content)))
    IN  IF commentMatch # NoPath /\ HasFileExtension(commentMatch) THEN commentMatch
        ELSE NoPath

FileLabel == <<"*","*","F","i","l","e",":","*","*">>
HeadingLabel == <<"#","#","#">>

\* PRECEDING_FILE_REGEX tried at position i of textBefore with the label
\* `label`: capture 1 or NoPath
PrecedingAt(textBefore, i, label) ==
    LET last == Len(trimEnd(textBefore))
        end == IF CharAt(textBefore, last) = Backtick THEN last - 1 ELSE last
        from == i + Len(label)
        start(a) == from + a + (IF CharAt(textBefore, from + a) = Backtick THEN 1 ELSE 0)
        skips == { a \in 0..RunLen(textBefore, from, WhiteSpace) :
                      IsDottedName(SubSeq(textBefore, start(a), end), {"\n", Backtick}) }
    IN  IF MatchesAt(textBefore, i, label) /\ skips # {}
        THEN SubSeq(textBefore, start(Greatest(skips)), end)
        ELSE NoPath

\* textBefore.match(PRECEDING_FILE_REGEX): capture 1 of the leftmost match
PrecedingMatch(textBefore) ==
    LET at(i) == IF PrecedingAt(textBefore, i, FileLabel) # NoPath
                 THEN PrecedingAt(textBefore, i, FileLabel)
                 ELSE PrecedingAt(textBefore, i, HeadingLabel)
        starts == { i \in 1..Len(textBefore) : at(i) # NoPath }
    IN  IF starts = {} THEN NoPath ELSE at(Least(starts))

\* Strategy 4: the text immediately before the code fence
PrecedingPath(text, index) ==
    LET textBefore == SubSeq(text, Max(1, index - LOOKBACK_CHARS), index - 1)
    IN  trim(PrecedingMatch(textBefore))

\* the four strategies with the preceding label tried first
ResolvePathLabelFirst(text, match) ==
    IF PrecedingPath(text, match.index) # NoPath THEN PrecedingPath(text, match.index)
    ELSE IF FilenameAttrPath(match.infoString) # NoPath THEN FilenameAttrPath(match.infoString)
    ELSE IF InfoStringPath(match.infoString) # NoPath THEN InfoStringPath(match.infoString)
    ELSE FirstLineCommentPath(match.content)

\* filePath after the four strategies, each tried only while filePath is null
ResolvePath(text, match) ==
    IF FilenameAttrPath(match.infoString) # NoPath THEN FilenameAttrPath(match.infoString)
    ELSE IF InfoStringPath(match.infoString) # NoPath THEN InfoStringPath(match.infoString)
    ELSE IF FirstLineCommentPath(match.content) # NoPath THEN FirstLineCommentPath(match.content)
    ELSE PrecedingPath(text, match.index)

\* the content pushed for a block: the filename comment line removed, then
\* trimEnd() + '\n'
CleanContent(content, filePath) ==
    LET commentMatch == FirstLineCommentMatch(trim(FirstLine(content)))
        cleanContent == IF commentMatch # NoPath /\ commentMatch = filePath
                        THEN AfterFirstLine(content) ELSE content
    IN  trimEnd(cleanContent) \o <<"\n">>

\* the body of the while loop for each match, in order
RECURSIVE CollectBlocks(_, _)
CollectBlocks(text, matches) ==
    IF matches = <<>> THEN <<>>
    ELSE LET match == Head(matches)
             filePath == ResolvePath(text, match)
         IN  IF trim(match.content) = <<>> \/ filePath = NoPath
             THEN CollectBlocks(text, Tail(matches))
             ELSE << [ filePath |-> trim(filePath),
                       content |-> CleanContent(match.content, filePath),
                       language |-> match.language ] >>
                  \o CollectBlocks(text, Tail(matches))

parseCodeBlocks(text) == CollectBlocks(text, FenceMatches(text, 1))

\* ------------------------------------------------------------------------
\* file-writer: writeCodeBlocks
\* ------------------------------------------------------------------------
\* A path is a sequence of segments, a segment a sequence of characters.

DotSeg == <<".">>
DotDotSeg == <<".", ".">>

\* process.cwd()
Cwd == << <<"w">> >>

\* path.resolve: the segments of `segs` applied to the absolute path `acc`
RECURSIVE Normalize(_, _)
Normalize(acc, segs) ==
    IF segs = <<>> THEN acc
    ELSE IF Head(segs) = DotSeg THEN Normalize(acc, Tail(segs))
    ELSE IF Head(segs) = DotDotSeg
    THEN Normalize(IF acc = <<>> THEN acc ELSE SubSeq(acc, 1, Len(acc) - 1), Tail(segs))
    ELSE Normalize(Append(acc, Head(segs)), Tail(segs))

\* path.resolve(from, to) for relative paths
pathResolve(from, to) == Normalize(Normalize(Cwd, from), to)

\* the string of an absolute path: '/' + segments joined by '/'
RECURSIVE PathString(_)
PathString(segs) ==
    IF segs = <<>> THEN <<>>
    ELSE <<"/">> \o Head(segs) \o PathString(Tail(segs))

\* String.prototype.startsWith
StartsWith(str, prefix) ==
    Len(str) >= Len(prefix) /\ SubSeq(str, 1, Len(prefix)) = prefix

\* the loop of writeCodeBlocks: the paths written, in order
RECURSIVE writeCodeBlocks(_, _)
writeCodeBlocks(blocks, outputPath) ==
    IF blocks = <<>> THEN <<>>
    ELSE LET fullPath == pathResolve(outputPath, Head(blocks))
             resolvedOutput == pathResolve(outputPath, <<>>)
         IN  IF ~StartsWith(PathString(fullPath), PathString(resolvedOutput))
             THEN writeCodeBlocks(Tail(blocks), outputPath)
             ELSE <<fullPath>> \o writeCodeBlocks(Tail(blocks), outputPath)

\* ------------------------------------------------------------------------
\* Conversation turns
\* ------------------------------------------------------------------------
\* role/kind, `est` = what estimateHistoryChars adds for the turn, `json` =
\* what trimConversationHistory subtracts for it (content.length of a string,
\* JSON.stringify(content).length of a block array), `uses` = its tool_use
\* blocks (id, name, input), `results` = its tool_result blocks.

StringMsg(role, kind, len) ==
    [role |-> role, kind |-> kind, est |-> len, json |-> len,
     uses |-> <<>>, results |-> <<>>]

ToolUseJsonLen(u) ==
    ToolUseJsonFixedLen + ToolUseIdLen + Len(u.name) + JSONstringifyLen(u.input)

\* the tool_use blocks of a response, with the ids the backend gave them
ToolUseBlocks(resp, ids) ==
    [i \in 1..Len(resp.uses) |->
        [id |-> ids[i], name |-> resp.uses[i].name, input |-> resp.uses[i].input]]

\* { role: 'assistant', content: response.content }
ResponseMsg(resp, ids) ==
    LET nBlocks == Len(resp.texts) + Len(resp.uses)
        textLens == [i \in 1..Len(resp.texts) |-> TextLen(resp.texts[i])]
        useLens == [i \in 1..Len(resp.uses) |-> ToolUseJsonLen(resp.uses[i])]
    IN  [ role |-> "assistant", kind |-> "response",
          est |-> SumSeq(textLens) + SumSeq(useLens),
          json |-> 2 + SumSeq(textLens) + TextBlockJsonFixedLen * Len(resp.texts)
                     + SumSeq(useLens) + Max(0, nBlocks - 1),
          uses |-> ToolUseBlocks(resp, ids), results |-> <<>> ]

\* a results turn holding the results last request first
ResultsMsgReversed(slots) ==
    LET lens == [i \in 1..Len(slots) |-> slots[i].content.len]
    IN  [ role |-> "user", kind |-> "results",
          est |-> SumSeq(lens),
          json |-> 2 + SumSeq(lens) + (ToolResultJsonFixedLen + ToolUseIdLen) * Len(slots)
                     + Max(0, Len(slots) - 1),
          uses |-> <<>>,
          results |-> [i \in 1..Len(slots) |->
                         [tool_use_id |-> slots[Len(slots) + 1 - i].id,
                          content |-> slots[Len(slots) + 1 - i].content]] ]

\* a results turn that leaves out the results that are error payloads
ResultsMsgSkipErrors(slots) ==
    LET kept == SelectSeq(slots, LAMBDA sl : sl.content.tag # "error")
        lens == [i \in 1..Len(kept) |-> kept[i].content.len]
    IN  [ role |-> "user", kind |-> "results",
          est |-> SumSeq(lens),
          json |-> 2 + SumSeq(lens) + (ToolResultJsonFixedLen + ToolUseIdLen) * Len(kept)
                     + Max(0, Len(kept) - 1),
          uses |-> <<>>,
          results |-> [i \in 1..Len(kept) |->
                         [tool_use_id |-> kept[i].id, content |-> kept[i].content]] ]

\* { role: 'user', content: toolResults }
ResultsMsg(slots) ==
    LET lens == [i \in 1..Len(slots) |-> slots[i].content.len]
    IN  [ role |-> "user", kind |-> "results",
          est |-> SumSeq(lens),
          json |-> 2 + SumSeq(lens) + (ToolResultJsonFixedLen + ToolUseIdLen) * Len(slots)
                     + Max(0, Len(slots) - 1),
          uses |-> <<>>,
          results |-> [i \in 1..Len(slots) |->
                         [tool_use_id |-> slots[i].id, content |-> slots[i].content]] ]

\* the two synthetic turns of the conversation rewrite
SyntheticAssistantMsg == StringMsg("assistant", "synthetic", SynthAssistantLen)

\* the tools the redirect names: 'DO NOT call get_figma_data again' and
\* 'You MUST call one of these Naos design system tools'
RedirectForbids == {"get_figma_data"}
RedirectExpects == {"get_naos_component_docs", "get_naos_design_tokens", "get_naos_icons"}

SyntheticRedirectMsg(cache) ==
    LET summary == IF Len(cache) > 0
                   THEN SummaryHeadLen + Min(SUMMARY_EXCERPT_CHARS, cache[1].v.len)
                   ELSE NoSummaryLen
    IN  StringMsg("user", "redirect", RedirectHeadLen + summary + RedirectTailLen)
          @@ [forbids |-> RedirectForbids, expects |-> RedirectExpects]

\* a rewrite that pushes the redirect alone
EscalationTurnsRedirectOnly(cache) == << SyntheticRedirectMsg(cache) >>

\* the two pushes of the rewrite
EscalationTurns(cache) == << SyntheticAssistantMsg, SyntheticRedirectMsg(cache) >>

estimateHistoryChars(h) == SumSeq([i \in 1..Len(h) |-> h[i].est])

\* the while loop of trimConversationHistory
RECURSIVE DropLoop(_, _, _)
DropLoop(rest, trimmedChars, dropCount) ==
    IF trimmedChars > MAX_HISTORY_CHARS /\ dropCount < Len(rest) - 2
    THEN DropLoop(rest, trimmedChars - rest[dropCount + 1].json, dropCount + 1)
    ELSE dropCount

\* the drop loop without the pairing adjustment
DropCountNoPairing(h) == DropLoop(Tail(h), estimateHistoryChars(h), 0)

\* dropCount after `if (dropCount % 2 !== 0) dropCount++`
DropCount(h) ==
    LET d == DropLoop(Tail(h), estimateHistoryChars(h), 0)
    IN  IF d % 2 # 0 THEN d + 1 ELSE d

\* a trim that drops the oldest pair whatever the estimate
trimConversationHistoryEager(h) ==
    IF Len(h) >= 3 THEN <<h[1]>> \o SubSeq(h, 4, Len(h)) ELSE h

trimConversationHistory(h) ==
    IF estimateHistoryChars(h) <= MAX_HISTORY_CHARS THEN h
    ELSE LET dropCount == DropCount(h)
         IN  IF dropCount > 0
             THEN <<h[1]>> \o SubSeq(Tail(h), dropCount + 1, Len(h) - 1)
             ELSE h

\* ------------------------------------------------------------------------
\* Inputs: configurations and what the LLM backend may answer
\* ------------------------------------------------------------------------

\* `closes`: what client.close() of the server's connection does
FigmaServer == [name |-> "figma", tools |-> <<"get_figma_data">>, closes |-> "resolves"]
NaosServer == [name |-> "naos", tools |-> <<"get_naos_component_docs">>, closes |-> "rejects"]
\* a figma server whose process is gone when the run ends
FigmaServerGone == [FigmaServer EXCEPT !.closes = "rejects"]

\* 'https://figma.com/file/test123'
UrlFile == [path |-> <<"figma.com", "file", "test123">>, nodeId |-> "", len |-> 30]
\* 'https://figma.com/proto/test123'
UrlProto == [path |-> <<"figma.com", "proto", "test123">>, nodeId |-> "", len |-> 31]

\* How the providers of a run answer: for a tool, the answers to its
\* successive client.callTool calls (taken in turn, cyclically); a tool with
\* no entry answers with a short text.
FigmaEmptyThenData ==
    << [k |-> "get_figma_data", v |-> <<TextReply(0), TextReply(9000), IsErrorReply(20)>>] >>
FigmaLarge ==
    << [k |-> "get_figma_data", v |-> <<TextReply(9000)>>],
       [k |-> "get_naos_component_docs", v |-> <<ThrowReply(20)>>] >>

\* the provider reports an error for the first get_figma_data call
FigmaErrorFirst ==
    << [k |-> "get_figma_data", v |-> <<IsErrorReply(20), TextReply(300)>>] >>

DefaultReply == TextReply(300)

ServerSetups ==
    { [servers |-> <<>>, figmaUrl |-> UrlFile, replies |-> <<>>],
      [servers |-> <<FigmaServer>>, figmaUrl |-> UrlFile, replies |-> FigmaEmptyThenData],
      [servers |-> <<FigmaServer>>, figmaUrl |-> UrlProto, replies |-> FigmaLarge],
      [servers |-> <<FigmaServer, NaosServer>>, figmaUrl |-> UrlFile,
       replies |-> FigmaEmptyThenData],
      [servers |-> <<FigmaServer, NaosServer>>, figmaUrl |-> UrlFile,
       replies |-> FigmaLarge],
      [servers |-> <<FigmaServerGone>>, figmaUrl |-> UrlFile, replies |-> FigmaErrorFirst] }

\* './test-output'
OutputTestOutput == [segs |-> << DotSeg, <<"t","e","s","t","-","o","u","t","p","u","t">> >>, len |-> 13]

\* anthropicApiKey: 'sk-ant-test-key', '' and a config without the field
TestKey == [len |-> 15]
EmptyKey == [len |-> 0]

Configs ==
    { [servers |-> s.servers, figmaUrl |-> s.figmaUrl, replies |-> s.replies,
       outputPath |-> OutputTestOutput, minCoverage |-> 80, maxTurns |-> n,
       anthropicApiKey |-> TestKey] :
        s \in ServerSetups, n \in 1..MaxTurnsBound }

\* the configs the constructor is called with
NewConfigs ==
    { [c EXCEPT !.anthropicApiKey = k] : c \in Configs, k \in {TestKey, EmptyKey, NULL} }

\* the answer of the provider to the (n+1)-th client.callTool for `name`
ProviderReply(replies, name, n) ==
    IF MapHas(replies, name)
    THEN MapGet(replies, name)[(n % Len(MapGet(replies, name))) + 1]
    ELSE DefaultReply

BodyWorking ==
    <<"S","t","i","l","l"," ","w","o","r","k","i","n","g"," ","o","n"," ","P","h","a","s","e"," ","1",".",".",".">>
BodyDoneUpper ==
    <<"W","O","R","K","F","L","O","W"," ","C","O","M","P","L","E","T","E"," ","-"," ","o","k">>
BodyDoneMixed ==
    <<"A","l","l"," ","P","h","a","s","e","s"," ","C","o","m","p","l","e","t","e","d",".">>
BodyNearMiss ==
    <<"w","o","r","k","f","l","o","w"," ","i","s"," ","c","o","m","p","l","e","t","e">>

\* 'Button/Button.tsx'
BlockButton == << <<"B","u","t","t","o","n">>, <<"B","u","t","t","o","n",".","t","s","x">> >>
\* '../../etc/evil.sh'
BlockEtcEvil == << DotDotSeg, DotDotSeg, <<"e","t","c">>, <<"e","v","i","l",".","s","h">> >>
\* '../test-output-evil/evil.sh'
BlockSiblingEvil == << DotDotSeg, <<"t","e","s","t","-","o","u","t","p","u","t","-","e","v","i","l">>, <<"e","v","i","l",".","s","h">> >>

\* a long answer: two of them exceed the history budget
BigPad == MAX_HISTORY_CHARS \div 2 + 10000

Use(name, input) == [name |-> name, input |-> input]

Resp(texts, uses) == [texts |-> texts, uses |-> uses]

Responses ==
    { Resp(<<MkText(BodyWorking, BigPad, <<>>)>>, <<>>),
      Resp(<<MkText(BodyDoneUpper, 0, <<BlockButton>>)>>, <<>>),
      Resp(<<MkText(BodyDoneMixed, 0, <<>>)>>, <<Use("figma", ArgsA)>>),
      Resp(<<MkText(BodyNearMiss, 0, <<BlockSiblingEvil, BlockButton, BlockEtcEvil>>)>>,
           <<Use("figma", ArgsA)>>),
      Resp(<<>>, <<Use("get_figma_data", ArgsA)>>),
      Resp(<<MkText(BodyWorking, BigPad, <<>>)>>,
           <<Use("get_figma_data", ArgsA), Use("get_figma_data", ArgsA)>>),
      Resp(<<>>, <<Use("get_figma_data", ArgsB), Use("get_naos_component_docs", ArgsA)>>),
      Resp(<<MkText(BodyNearMiss, 0, <<BlockButton>>)>>, <<>>) }

NoResponse == Resp(<<>>, <<>>)

HasFiles(resp) == Len(FullText(resp.texts).blocks) > 0

\* the responses by what the turn loop reads of them
CompletingResponses == { r \in Responses : isWorkflowComplete(FullText(r.texts)) }
ContinuingResponses == Responses \ CompletingResponses
ToolResponses == { r \in ContinuingResponses : Len(r.uses) > 0 }
TextOnlyResponses == { r \in ContinuingResponses : Len(r.uses) = 0 }
FileResponses == { r \in Responses : HasFiles(r) }

\* ------------------------------------------------------------------------
\* Inputs of parseCodeBlocks
\* ------------------------------------------------------------------------

LabelFile == <<"*","*","F","i","l","e",":","*","*"," ","M","/","i",".","t","s">>
LabelHeading == <<"#","#","#"," ",Backtick,"T",".","t","s","x",Backtick>>
Prose == <<"H","e","r","e",":">>
OpenBare == <<Backtick,Backtick,Backtick>>
OpenLang == <<Backtick,Backtick,Backtick,"t","s","x">>
OpenLangSpace == <<Backtick,Backtick,Backtick,"t","s"," "," ">>
OpenInfoPath == <<Backtick,Backtick,Backtick,"t","s","x"," ","B","/","B",".","t","s","x">>
OpenAttr == <<Backtick,Backtick,Backtick,"t","s","x"," ","f","i","l","e","n","a","m","e","=","\"","C",".","c","s","s","\"">>
OpenTitle == <<Backtick,Backtick,Backtick,"t","s","x"," ","t","i","t","l","e","=","a">>
BodyComment == <<"/","/"," ","H",".","t","s">>
BodyCode == <<"x">>
BodyBlank == <<" "," ">>

\* a line of spaces as long as the lookback of strategy 4
LongBlank == [i \in 1..LOOKBACK_CHARS |-> " "]

Preludes == { <<>>, <<Prose>>, <<LabelFile>>, <<LabelHeading>> }

Gaps == { [i \in 1..n |-> <<>>] : n \in 0..MaxGapLines } \cup { <<LongBlank>> }

OpeningLines == { OpenBare, OpenLang, OpenLangSpace, OpenInfoPath, OpenAttr, OpenTitle }

Bodies ==
    { <<>>, <<BodyBlank>>, <<BodyCode>>, <<BodyComment>>, <<BodyComment, BodyCode>>,
      <<BodyCode, BodyComment>> }

\* what follows the first block
FollowUps ==
    { <<>>, <<OpenInfoPath, BodyCode, Fence>>, <<<<>>, LabelHeading, OpenLang, BodyCode, Fence, Prose>> }

LF == <<"\n">>
CRLF == <<"\r", "\n">>

\* lines.join(eol)
RECURSIVE Join(_, _)
Join(lines, eol) ==
    IF lines = <<>> THEN <<>>
    ELSE IF Len(lines) = 1 THEN lines[1]
    ELSE lines[1] \o eol \o Join(Tail(lines), eol)

\* what stands before the first fence
Preambles == { <<>> } \cup { p \o g : p \in Preludes \ { <<>> }, g \in Gaps }

Texts ==
    { Join(p \o <<o>> \o b \o <<Fence>> \o f, eol) :
        p \in Preambles, o \in OpeningLines, b \in Bodies, f \in FollowUps,
        eol \in {LF, CRLF} }

\* ------------------------------------------------------------------------
\* State
\* ------------------------------------------------------------------------

VARIABLES
    config,                 \* this.config
    pc,                     \* where run() is
    result,                 \* what run() settled with
    mcpBridge,              \* this.mcpBridge is not null
    connectIdx,             \* the server connect() is at
    clients,                \* McpBridge.clients: server name -> connection
    toolMap,                \* McpBridge.toolMap: tool name -> server name
    tools,                  \* McpBridge.tools
    prefetchIdx,            \* the category prefetchData is at
    prefetched,             \* this.prefetched
    systemPrompt,           \* executeLoop's systemPrompt
    userPrompt,             \* executeLoop's userPrompt
    conversationHistory,    \* this.conversationHistory
    turn,                   \* executeLoop's turn
    allWrittenFiles,        \* executeLoop's allWrittenFiles
    previousToolCalls,      \* Map callKey -> capped result
    calledToolCategories,   \* Set of server names
    consecutiveDuplicates,  \* Map tool name -> count
    blockedTools,           \* Set of tool names
    pending,                \* the tool requests of the turn in flight
    providerCalls,          \* Map tool name -> client.callTool calls received
    \* history of the run, for stating the properties
    opened,                 \* connections client.connect opened
    closeAttempts,          \* connection -> number of client.close calls
    llmCalls,               \* number of messages.create calls
    offered,                \* the tool schema of the last messages.create call
    blockedAtCall,          \* blockedTools at the last messages.create call
    lastResponse,           \* the response of the last messages.create call
    lastStep,               \* what the last turn did
    lastDrop,               \* turns removed by the last trimConversationHistory
    invocations,            \* Map callKey -> callTool/simulateToolResult calls in the loop
    prefetchCalls,          \* tool names callTool was called with by prefetchData
    writeCalls,             \* number of writeCodeBlocks calls
    progress,               \* the events onProgress was called with
    \* a call of parseCodeBlocks
    textArg,                \* its argument `text`
    fenceMatches,           \* the matches CODE_FENCE_REGEX.exec returned
    codeBlocks,             \* the blocks it returned
    \* two run() calls on one agent
    runCalls                \* the agent's fields and where each call is

vars == << config, pc, result, mcpBridge, connectIdx, clients, toolMap, tools,
           prefetchIdx, prefetched, systemPrompt, userPrompt, conversationHistory,
           turn, allWrittenFiles, previousToolCalls, calledToolCategories,
           consecutiveDuplicates, blockedTools, pending, providerCalls, opened,
           closeAttempts, llmCalls, offered, blockedAtCall, lastResponse, lastStep, lastDrop,
           invocations, prefetchCalls, writeCalls, progress, textArg, fenceMatches,
           codeBlocks, runCalls >>

\* what one run() leaves alone: a parseCodeBlocks call, and the two calls
\* of run() on one agent
parserVars == << textArg, fenceMatches, codeBlocks, runCalls >>

bridgeVars == << mcpBridge, connectIdx, clients, toolMap, tools, opened, closeAttempts >>

prefetchVars == << prefetchIdx, prefetched, prefetchCalls >>

\* what neither connect() nor the turn loop's own state holds
providerVars == << providerCalls >>

loopVars == << systemPrompt, userPrompt, conversationHistory, turn, allWrittenFiles,
               previousToolCalls, calledToolCategories, consecutiveDuplicates,
               blockedTools, pending, llmCalls, offered, blockedAtCall, lastResponse,
               lastStep, lastDrop, invocations, writeCalls, progress >>

NoSchema == <<"(no tools parameter)">>

NoResult == [status |-> "none", kind |-> "none", server |-> "", limit |-> 0, files |-> 0]

\* extractResults called without the written files (writtenFiles = [])
CompleteWithoutFiles(files) ==
    [status |-> "complete", kind |-> "complete", server |-> "", limit |-> 0, files |-> 0]

Complete(files) ==
    [status |-> "complete", kind |-> "complete", server |-> "", limit |-> 0, files |-> files]

Failure(kind, server, limit) ==
    [status |-> "error", kind |-> kind, server |-> server, limit |-> limit, files |-> 0]

\* an agent on which run() is called twice: its fields mcpBridge (0 for
\* null, else the call that created the bridge), conversationHistory (each
\* turn with the call that made it) and prefetched (0 for null, else the call
\* that assigned it); and per call: where it is, its turn, whether the bridge
\* it created is connected, the messages of its last messages.create, the
\* bridge its last tool request went to (-1 none, 0 the mock layer), and the
\* bridge its finally block is disconnecting; `overlapped` records that a
\* call started while the other was in flight
NoRunCalls ==
    [ mcpBridge |-> 0, conversationHistory |-> <<>>, prefetched |-> 0,
      at |-> <<"idle", "idle">>, turn |-> <<0, 0>>,
      connected |-> <<FALSE, FALSE>>, sent |-> << <<>>, <<>> >>,
      via |-> <<-1, -1>>, closing |-> <<0, 0>>, overlapped |-> FALSE ]

\* the fields of an agent on which run() has not been called, and the
\* locals of run() other than executeLoop's cache, counters and blocked set
FieldsIdle ==
    /\ result = NoResult
    /\ mcpBridge = FALSE
    /\ connectIdx = 0
    /\ clients = <<>>
    /\ toolMap = <<>>
    /\ tools = <<>>
    /\ prefetchIdx = 0
    /\ prefetched = NULL
    /\ systemPrompt = ""
    /\ userPrompt = [len |-> 0, closing |-> "", embeds |-> {}]
    /\ turn = 0
    /\ allWrittenFiles = <<>>
    /\ calledToolCategories = {}
    /\ pending = <<>>
    /\ providerCalls = <<>>
    /\ opened = {}
    /\ closeAttempts = <<>>
    /\ llmCalls = 0
    /\ offered = NoSchema
    /\ blockedAtCall = {}
    /\ lastResponse = NoResponse
    /\ lastStep = "none"
    /\ lastDrop = 0
    /\ invocations = <<>>
    /\ prefetchCalls = <<>>
    /\ writeCalls = 0
    /\ progress = <<>>

\* the duplicate-call cache, the counters and the blocked set of executeLoop
\* when it starts
LoopMemoryEmpty ==
    /\ previousToolCalls = <<>>
    /\ consecutiveDuplicates = <<>>
    /\ blockedTools = {}

NothingRunning == FieldsIdle /\ LoopMemoryEmpty

\* the agent's fields before run() is called
Unstarted ==
    /\ NothingRunning
    /\ conversationHistory = <<>>

Init ==
    /\ config \in Configs
    /\ pc = "init"
    /\ Unstarted
    /\ textArg = <<>>
    /\ fenceMatches = <<>>
    /\ codeBlocks = <<>>
    /\ runCalls = NoRunCalls

\* ------------------------------------------------------------------------
\* run(): connecting
\* ------------------------------------------------------------------------

\* run() up to `await this.mcpBridge.connect()`
Run ==
    /\ pc = "init"
    /\ IF Len(config.servers) > 0
       THEN /\ mcpBridge' = TRUE
            /\ connectIdx' = 1
            /\ pc' = "connect"
       ELSE /\ pc' = "prefetch"
            /\ UNCHANGED << mcpBridge, connectIdx >>
    /\ UNCHANGED << config, result, clients, toolMap, tools, opened, closeAttempts >>
    /\ UNCHANGED prefetchVars
    /\ UNCHANGED providerVars
    /\ UNCHANGED loopVars
    /\ UNCHANGED parserVars

\* an error that does not say which server failed
ConnectErrorUnnamed(server) == Failure("connectFailed", "", 0)

\* new Error(`MCP server ${server.name} connection failed: ${message}`)
ConnectError(server) == Failure("connectFailed", server.name, 0)

\* connect(): client.connect(transport) of the current server rejects; the
\* error leaves run() before its try block
ConnectFails ==
    /\ pc = "connect"
    /\ result' = ConnectError(config.servers[connectIdx])
    /\ pc' = "done"
    /\ UNCHANGED << config >>
    /\ UNCHANGED bridgeVars
    /\ UNCHANGED prefetchVars
    /\ UNCHANGED providerVars
    /\ UNCHANGED loopVars
    /\ UNCHANGED parserVars

\* connect(): the current server is connected, its listTools() rejects
DiscoveryFails ==
    /\ pc = "connect"
    /\ opened' = opened \cup {connectIdx}
    /\ clients' = MapSet(clients, config.servers[connectIdx].name, connectIdx)
    /\ result' = Failure("discoveryFailed", "", 0)
    /\ pc' = "done"
    /\ UNCHANGED << config, mcpBridge, connectIdx, toolMap, tools, closeAttempts >>
    /\ UNCHANGED prefetchVars
    /\ UNCHANGED providerVars
    /\ UNCHANGED loopVars
    /\ UNCHANGED parserVars

\* connect(): one iteration of the loop over the servers, all awaits resolved
ConnectServer ==
    /\ pc = "connect"
    /\ LET server == config.servers[connectIdx]
           reg == RegisterTools(toolMap, tools, server.name, server.tools)
       IN  /\ opened' = opened \cup {connectIdx}
           /\ clients' = MapSet(clients, server.name, connectIdx)
           /\ toolMap' = reg.toolMap
           /\ tools' = reg.tools
           /\ IF connectIdx < Len(config.servers)
              THEN connectIdx' = connectIdx + 1 /\ pc' = "connect"
              ELSE connectIdx' = connectIdx /\ pc' = "prefetch"
    /\ UNCHANGED << config, result, mcpBridge, closeAttempts >>
    /\ UNCHANGED prefetchVars
    /\ UNCHANGED providerVars
    /\ UNCHANGED loopVars
    /\ UNCHANGED parserVars

\* ------------------------------------------------------------------------
\* run(): prefetchData
\* ------------------------------------------------------------------------

PrefetchCategories ==
    << [field |-> "figmaData", tool |-> "get_figma_data", cap |-> FIGMA_PREFETCH_CAP],
       [field |-> "naosComponents", tool |-> "get_naos_component_docs",
        cap |-> COMPONENTS_PREFETCH_CAP],
       [field |-> "naosTokens", tool |-> "get_naos_design_tokens",
        cap |-> TOKENS_PREFETCH_CAP] >>

\* a tool list that holds every anticipated tool whatever was discovered
ToolNamesAnticipated(descs) ==
    {"get_figma_data", "get_naos_component_docs", "get_naos_design_tokens"}

ToolNames(descs) == { descs[i].name : i \in 1..Len(descs) }

\* prefetchData up to its first fetch: no bridge, or the url is parsed
PrefetchStart ==
    /\ pc = "prefetch"
    /\ IF ~mcpBridge
       THEN /\ prefetched' = EmptyContext
            /\ pc' = "loopInit"
            /\ UNCHANGED << result, prefetchIdx >>
       ELSE IF parseFigmaUrl(config.figmaUrl).ok
       THEN /\ prefetched' = EmptyContext
            /\ prefetchIdx' = 1
            /\ pc' = "prefetching"
            /\ UNCHANGED result
       ELSE /\ result' = Failure("figmaUrl", "", 0)
            /\ pc' = "finally"
            /\ UNCHANGED << prefetched, prefetchIdx >>
    /\ UNCHANGED << config, prefetchCalls >>
    /\ UNCHANGED bridgeVars
    /\ UNCHANGED providerVars
    /\ UNCHANGED loopVars
    /\ UNCHANGED parserVars

\* prefetchData: one `if (tools.includes(...)) { try { await callTool } }`
PrefetchCategory ==
    /\ pc = "prefetching"
    /\ LET cat == PrefetchCategories[prefetchIdx]
           raw == callTool(cat.tool, toolMap, clients,
                           ProviderReply(config.replies, cat.tool,
                                         MapCount(providerCalls, cat.tool)))
       IN  IF cat.tool \in ToolNames(tools)
           THEN /\ prefetched' = [prefetched EXCEPT ![cat.field] = PrefetchCap(raw, cat.cap)]
                /\ prefetchCalls' = Append(prefetchCalls, cat.tool)
                /\ providerCalls' =
                     IF ReachesProvider(cat.tool, toolMap, clients)
                     THEN MapSet(providerCalls, cat.tool, MapCount(providerCalls, cat.tool) + 1)
                     ELSE providerCalls
           ELSE UNCHANGED << prefetched, prefetchCalls, providerCalls >>
    /\ IF prefetchIdx < Len(PrefetchCategories)
       THEN prefetchIdx' = prefetchIdx + 1 /\ pc' = "prefetching"
       ELSE prefetchIdx' = prefetchIdx /\ pc' = "loopInit"
    /\ UNCHANGED << config, result >>
    /\ UNCHANGED bridgeVars
    /\ UNCHANGED loopVars
    /\ UNCHANGED parserVars

\* ------------------------------------------------------------------------
\* executeLoop
\* ------------------------------------------------------------------------

\* executeLoop up to the while loop
ExecuteLoopInit ==
    /\ pc = "loopInit"
    /\ systemPrompt' = buildSystemPrompt(prefetched)
    /\ userPrompt' = buildUserPrompt(prefetched, config)
    /\ conversationHistory' =
         << StringMsg("user", "task", buildUserPrompt(prefetched, config).len) >>
    /\ turn' = 0
    /\ allWrittenFiles' = <<>>
    /\ previousToolCalls' = <<>>
    /\ calledToolCategories' = {}
    /\ consecutiveDuplicates' = <<>>
    /\ blockedTools' = {}
    /\ pc' = "loop"
    /\ UNCHANGED << config, result, pending, llmCalls, offered, blockedAtCall,
                    lastResponse, lastStep, lastDrop, invocations, writeCalls >>
    /\ UNCHANGED bridgeVars
    /\ UNCHANGED prefetchVars
    /\ UNCHANGED providerVars
    /\ UNCHANGED parserVars
    /\ UNCHANGED progress

\* while (turn < maxTurns), entered one time too many
LoopConditionOffByOne == turn <= config.maxTurns

\* while (turn < maxTurns)
LoopCondition == turn < config.maxTurns

\* this.mcpBridge?.getTools().find(t => t.name === name)?.serverName, if any
ServerOf(name, descs) ==
    LET hits == { i \in 1..Len(descs) : descs[i].name = name }
    IN  IF hits = {} THEN {}
        ELSE { descs[CHOOSE i \in hits : \A j \in hits : i <= j].serverName }

NoReply == [kind |-> "none", len |-> 0]

\* a block that needs one duplicate more
ReachedThresholdLate(dupCount) == dupCount > MAX_CONSECUTIVE_DUPLICATES

\* if (dupCount >= MAX_CONSECUTIVE_DUPLICATES)
ReachedThreshold(dupCount) == dupCount >= MAX_CONSECUTIVE_DUPLICATES

\* a cache that takes no error payload
CacheResultUnlessError(cache, callKey, resultContent) ==
    IF resultContent.tag = "error" THEN cache
    ELSE MapSet(cache, callKey, resultContent)

\* previousToolCalls.set(callKey, resultContent)
CacheResult(cache, callKey, resultContent) == MapSet(cache, callKey, resultContent)

\* a fresh call that leaves the tool's counter as it was
ResetOnFreshKeepsCount(dups, name) == MapSet(dups, name, MapCount(dups, name))

\* consecutiveDuplicates.set(toolUse.name, 0)
ResetOnFresh(dups, name) == MapSet(dups, name, 0)

\* the callback of toolUses.map for one request, up to its first await
DispatchOne(u, id, acc, bridge) ==
    LET callKey == CallKey(u.name, u.input)
    IN  IF MapHas(acc.cache, callKey)
        THEN LET dupCount == MapCount(acc.dups, u.name) + 1
             IN  [ acc EXCEPT
                     !.dups = MapSet(@, u.name, dupCount),
                     !.blocked = IF ReachedThreshold(dupCount)
                                 THEN @ \cup {u.name} ELSE @,
                     !.cats = IF bridge.has THEN @ \cup ServerOf(u.name, bridge.tools) ELSE @,
                     !.slots = Append(@, [ id |-> id, name |-> u.name, key |-> callKey,
                                           state |-> "done", reply |-> NoReply,
                                           content |-> DuplicateDirective(u.name,
                                                          MapGet(acc.cache, callKey)) ]) ]
        ELSE IF bridge.has
        THEN [ acc EXCEPT
                 !.dups = ResetOnFresh(@, u.name),
                 !.inv = MapSet(@, callKey, MapCount(@, callKey) + 1),
                 !.prov = IF ReachesProvider(u.name, bridge.toolMap, bridge.clients)
                          THEN MapSet(@, u.name, MapCount(@, u.name) + 1) ELSE @,
                 !.slots = Append(@, [ id |-> id, name |-> u.name, key |-> callKey,
                                       state |-> "pending",
                                       reply |-> ProviderReply(bridge.replies, u.name,
                                                               MapCount(acc.prov, u.name)),
                                       content |-> MkResult(0, "none") ]) ]
        ELSE LET resultContent == capToolResult(simulateToolResult(u.name))
             IN  [ acc EXCEPT
                     !.dups = ResetOnFresh(@, u.name),
                     !.inv = MapSet(@, callKey, MapCount(@, callKey) + 1),
                     !.cache = CacheResult(@, callKey, resultContent),
                     !.slots = Append(@, [ id |-> id, name |-> u.name, key |-> callKey,
                                           state |-> "done", reply |-> NoReply,
                                           content |-> resultContent ]) ]

\* toolUses.map(async ...): every callback runs up to its first await, in
\* request order, before any awaited call resolves
RECURSIVE DispatchToolUses(_, _, _, _)
DispatchToolUses(uses, ids, acc, bridge) ==
    IF uses = <<>> THEN acc
    ELSE DispatchToolUses(Tail(uses), Tail(ids),
                          DispatchOne(Head(uses), Head(ids), acc, bridge), bridge)

Trimmed == trimConversationHistory(conversationHistory)

\* onProgress({ turn, status: 'running', message: `Processing turn ${turn}...` })
TurnStarted(t) ==
    [turn |-> t, status |-> "running", message |-> "processing", chars |-> 0, toolCalls |-> 0]

\* onProgress({ turn, status: 'running', message: fullText, toolCalls })
TurnAnswered(t, resp) ==
    [turn |-> t, status |-> "running", message |-> "fullText",
     chars |-> TextLen(FullText(resp.texts)), toolCalls |-> Len(resp.uses)]

\* onProgress({ turn, status: 'complete', message, result })
WorkflowCompleted(t) ==
    [turn |-> t, status |-> "complete", message |-> "completed", chars |-> 0, toolCalls |-> 0]

\* the start of a turn up to the response of messages.create
CallLlm(resp) ==
    /\ pc = "loop"
    /\ LoopCondition
    /\ turn' = turn + 1
    /\ llmCalls' = llmCalls + 1
    /\ lastDrop' = Len(conversationHistory) - Len(Trimmed)
    /\ offered' = IF IsPrefetchMode(prefetched) THEN NoSchema
                  ELSE buildTools(mcpBridge, tools, blockedTools)
    /\ blockedAtCall' = blockedTools
    /\ lastResponse' = resp

\* `if (fullText.includes('```')) { ... writeCodeBlocks ... }` returning
\* a turn that leaves the extracted blocks unwritten
WriteFilesSkipped(resp) ==
    /\ allWrittenFiles' = allWrittenFiles
    /\ writeCalls' = writeCalls

WriteFiles(resp) ==
    /\ allWrittenFiles' = allWrittenFiles
                             \o writeCodeBlocks(FullText(resp.texts).blocks,
                                                config.outputPath.segs)
    /\ writeCalls' = writeCalls + (IF HasFiles(resp) THEN 1 ELSE 0)

\* an escalation that fires as soon as one request names a blocked tool
AnyBlocked(resp) ==
    \E i \in 1..Len(resp.uses) : resp.uses[i].name \in blockedTools

AllBlocked(resp) ==
    /\ Len(resp.uses) > 0
    /\ \A i \in 1..Len(resp.uses) : resp.uses[i].name \in blockedTools

\* a turn whose messages.create call rejects
TurnLlmFails ==
    /\ CallLlm(NoResponse)
    /\ progress' = Append(progress, TurnStarted(turn + 1))
    /\ conversationHistory' = Trimmed
    /\ result' = Failure("llm", "", 0)
    /\ lastStep' = "llmFailed"
    /\ pc' = "finally"
    /\ UNCHANGED << config, systemPrompt, userPrompt, allWrittenFiles, previousToolCalls,
                    calledToolCategories, consecutiveDuplicates, blockedTools, pending,
                    invocations, writeCalls >>
    /\ UNCHANGED bridgeVars
    /\ UNCHANGED prefetchVars
    /\ UNCHANGED providerVars
    /\ UNCHANGED parserVars

\* a turn whose writeCodeBlocks call rejects (an I/O error)
TurnWriteFails ==
    \E resp \in FileResponses :
        /\ CallLlm(resp)
        /\ progress' = Append(progress, TurnStarted(turn + 1))
        /\ conversationHistory' = Trimmed
        /\ writeCalls' = writeCalls + 1
        /\ result' = Failure("io", "", 0)
        /\ lastStep' = "writeFailed"
        /\ pc' = "finally"
        /\ UNCHANGED << config, systemPrompt, userPrompt, allWrittenFiles,
                        previousToolCalls, calledToolCategories, consecutiveDuplicates,
                        blockedTools, pending, invocations >>
        /\ UNCHANGED bridgeVars
        /\ UNCHANGED prefetchVars
        /\ UNCHANGED providerVars
        /\ UNCHANGED parserVars

\* a turn whose text holds a completion indicator
TurnCompletes ==
    \E resp \in CompletingResponses :
        /\ CallLlm(resp)
        /\ progress' = progress \o << TurnStarted(turn + 1), TurnAnswered(turn + 1, resp),
                                    WorkflowCompleted(turn + 1) >>
        /\ WriteFiles(resp)
        /\ conversationHistory' = Trimmed
        /\ result' = Complete(Len(allWrittenFiles'))
        /\ lastStep' = "complete"
        /\ pc' = "finally"
        /\ UNCHANGED << config, systemPrompt, userPrompt, previousToolCalls,
                        calledToolCategories, consecutiveDuplicates, blockedTools,
                        pending, invocations >>
        /\ UNCHANGED bridgeVars
        /\ UNCHANGED prefetchVars
        /\ UNCHANGED providerVars
        /\ UNCHANGED parserVars

\* a turn all of whose tool requests name blocked tools: the rewrite
TurnEscalates ==
    \E resp \in ToolResponses :
        /\ AllBlocked(resp)
        /\ CallLlm(resp)
        /\ progress' = progress \o << TurnStarted(turn + 1), TurnAnswered(turn + 1, resp) >>
        /\ WriteFiles(resp)
        /\ conversationHistory' =
             Trimmed \o EscalationTurns(previousToolCalls)
        /\ lastStep' = "escalated"
        /\ UNCHANGED << config, pc, result, systemPrompt, userPrompt, previousToolCalls,
                        calledToolCategories, consecutiveDuplicates, blockedTools,
                        pending, invocations >>
        /\ UNCHANGED bridgeVars
        /\ UNCHANGED prefetchVars
        /\ UNCHANGED providerVars
        /\ UNCHANGED parserVars

\* a turn with tool requests: the response is committed and every request is
\* dispatched; without a bridge every request is answered at once
TurnDispatchesTools ==
    \E resp \in ToolResponses :
        /\ ~AllBlocked(resp)
        /\ CallLlm(resp)
        /\ progress' = progress \o << TurnStarted(turn + 1), TurnAnswered(turn + 1, resp) >>
        /\ WriteFiles(resp)
        /\ LET ids == [i \in 1..Len(resp.uses) |-> <<turn + 1, i>>]
               acc == DispatchToolUses(resp.uses, ids,
                         [ cache |-> previousToolCalls, dups |-> consecutiveDuplicates,
                           blocked |-> blockedTools, cats |-> calledToolCategories,
                           inv |-> invocations, prov |-> providerCalls, slots |-> <<>> ],
                         [ has |-> mcpBridge, tools |-> tools, toolMap |-> toolMap,
                           clients |-> clients, replies |-> config.replies ])
               committed == Append(Trimmed, ResponseMsg(resp, ids))
               inFlight == \E i \in 1..Len(acc.slots) : acc.slots[i].state = "pending"
           IN  /\ previousToolCalls' = acc.cache
               /\ consecutiveDuplicates' = acc.dups
               /\ blockedTools' = acc.blocked
               /\ calledToolCategories' = acc.cats
               /\ invocations' = acc.inv
               /\ providerCalls' = acc.prov
               /\ IF inFlight
                  THEN /\ conversationHistory' = committed
                       /\ pending' = acc.slots
                       /\ pc' = "tools"
                  ELSE /\ conversationHistory' = Append(committed, ResultsMsg(acc.slots))
                       /\ pending' = <<>>
                       /\ pc' = "loop"
        /\ lastStep' = "tools"
        /\ UNCHANGED << config, result, systemPrompt, userPrompt >>
        /\ UNCHANGED bridgeVars
        /\ UNCHANGED prefetchVars
        /\ UNCHANGED parserVars

\* the first callback to finish settles the turn
AnySettled(slots) == \E j \in 1..Len(slots) : slots[j].state = "done"

\* Promise.all: every callback has returned its tool_result
AllSettled(slots) == \A j \in 1..Len(slots) : slots[j].state = "done"

\* an awaited callTool of the turn resolves: the rest of its callback runs;
\* when it was the last one, Promise.all resolves and the results turn is pushed
ToolCallResolves ==
    /\ pc = "tools"
    /\ \E i \in 1..Len(pending) :
        /\ pending[i].state = "pending"
        /\  LET rawResult == callTool(pending[i].name, toolMap, clients, pending[i].reply)
                resultContent == capToolResult(rawResult)
                slots == [pending EXCEPT ![i].state = "done", ![i].content = resultContent]
            IN  /\ previousToolCalls' = CacheResult(previousToolCalls, pending[i].key,
                                                    resultContent)
                /\ calledToolCategories' =
                     calledToolCategories \cup ServerOf(pending[i].name, tools)
                /\ IF AllSettled(slots)
                   THEN /\ conversationHistory' = Append(conversationHistory, ResultsMsg(slots))
                        /\ pending' = <<>>
                        /\ pc' = "loop"
                   ELSE /\ pending' = slots
                        /\ UNCHANGED << conversationHistory, pc >>
    /\ UNCHANGED << config, result, systemPrompt, userPrompt, turn, allWrittenFiles,
                    consecutiveDuplicates, blockedTools, llmCalls, offered, blockedAtCall,
                    lastResponse, lastStep, lastDrop, invocations, writeCalls >>
    /\ UNCHANGED bridgeVars
    /\ UNCHANGED prefetchVars
    /\ UNCHANGED providerVars
    /\ UNCHANGED parserVars
    /\ UNCHANGED progress

\* { role: 'user', content: guidance }
GuidanceMsg(guidance) ==
    StringMsg("user", "guidance", guidance.len) @@ [guidance |-> guidance.kind]

\* a turn with no tool request and no completion indicator: guidance
TurnStalls ==
    \E resp \in TextOnlyResponses :
        /\ CallLlm(resp)
        /\ progress' = progress \o << TurnStarted(turn + 1), TurnAnswered(turn + 1, resp) >>
        /\ WriteFiles(resp)
        /\ conversationHistory' =
             Trimmed \o << ResponseMsg(resp, <<>>),
                           GuidanceMsg(buildPhaseGuidance(calledToolCategories,
                                                          Len(allWrittenFiles'))) >>
        /\ lastStep' = "stalled"
        /\ UNCHANGED << config, pc, result, systemPrompt, userPrompt, previousToolCalls,
                        calledToolCategories, consecutiveDuplicates, blockedTools,
                        pending, invocations >>
        /\ UNCHANGED bridgeVars
        /\ UNCHANGED prefetchVars
        /\ UNCHANGED providerVars
        /\ UNCHANGED parserVars

\* throw new Error(`Agent did not complete within ${maxTurns} turns`)
TurnBudgetExhausted ==
    /\ pc = "loop"
    /\ ~LoopCondition
    /\ result' = Failure("maxTurns", "", config.maxTurns)
    /\ pc' = "finally"
    /\ UNCHANGED << config >>
    /\ UNCHANGED bridgeVars
    /\ UNCHANGED prefetchVars
    /\ UNCHANGED providerVars
    /\ UNCHANGED loopVars
    /\ UNCHANGED parserVars

\* ------------------------------------------------------------------------
\* run(): the finally block
\* ------------------------------------------------------------------------

RECURSIVE CloseAll(_, _)
CloseAll(cl, attempts) ==
    IF cl = <<>> THEN attempts
    ELSE CloseAll(Tail(cl), MapSet(attempts, Head(cl).v, MapCount(attempts, Head(cl).v) + 1))

\* how disconnect() would settle were client.close() awaited without the
\* try/catch around it
DisconnectSettlesUncaught(cl, servers) ==
    IF \E i \in 1..Len(cl) : servers[cl[i].v].closes = "rejects"
    THEN "rejected" ELSE "fulfilled"

\* how disconnect() settles: Promise.all over callbacks that catch whatever
\* client.close() rejects with
DisconnectSettles(cl, servers) == "fulfilled"

\* `finally { if (this.mcpBridge) { await disconnect(); this.mcpBridge = null } }`
\* and run() settling
Finally ==
    /\ pc = "finally"
    /\ IF mcpBridge
       THEN /\ closeAttempts' = CloseAll(clients, closeAttempts)
            /\ IF DisconnectSettles(clients, config.servers) = "fulfilled"
               THEN /\ clients' = <<>>
                    /\ toolMap' = <<>>
                    /\ tools' = <<>>
                    /\ mcpBridge' = FALSE
                    /\ result' = result
               ELSE /\ result' = Failure("disconnectFailed", "", 0)
                    /\ UNCHANGED << clients, toolMap, tools, mcpBridge >>
       ELSE UNCHANGED << closeAttempts, clients, toolMap, tools, mcpBridge, result >>
    /\ pc' = "done"
    /\ UNCHANGED << config, connectIdx, opened >>
    /\ UNCHANGED prefetchVars
    /\ UNCHANGED providerVars
    /\ UNCHANGED loopVars
    /\ UNCHANGED parserVars

Next ==
    \/ Run
    \/ ConnectFails
    \/ DiscoveryFails
    \/ ConnectServer
    \/ PrefetchStart
    \/ PrefetchCategory
    \/ ExecuteLoopInit
    \/ TurnLlmFails
    \/ TurnWriteFails
    \/ TurnCompletes
    \/ TurnEscalates
    \/ TurnDispatchesTools
    \/ ToolCallResolves
    \/ TurnStalls
    \/ TurnBudgetExhausted
    \/ Finally

Spec == Init /\ [][Next]_vars

\* every awaited call returns and run() keeps running until it settles
FairSpec == Spec /\ WF_vars(Next)

\* ------------------------------------------------------------------------
\* Single calls beside run(): new DesignForgeAgent(config),
\* parseCodeBlocks(text) and trimConversationHistory()
\* ------------------------------------------------------------------------

\* `!config.anthropicApiKey` for keys of any length
KeyRejectedWhenAbsent(cfg) == cfg.anthropicApiKey = NULL

\* `!config.anthropicApiKey`
KeyRejected(cfg) == ~Truthy(cfg.anthropicApiKey)

\* the constructor: throws, or leaves an agent that run() can be called on
Constructor ==
    /\ pc = "new"
    /\ pc' = IF KeyRejected(config) THEN "threw" ELSE "init"
    /\ UNCHANGED << config, result >>
    /\ UNCHANGED bridgeVars
    /\ UNCHANGED prefetchVars
    /\ UNCHANGED providerVars
    /\ UNCHANGED loopVars
    /\ UNCHANGED parserVars

\* parseCodeBlocks(text), from the call to the return
ParseCodeBlocks ==
    /\ pc = "parseCodeBlocks"
    /\ fenceMatches' = FenceMatches(textArg, 1)
    /\ codeBlocks' = parseCodeBlocks(textArg)
    /\ UNCHANGED runCalls
    /\ pc' = "parsed"
    /\ UNCHANGED << config, result, textArg >>
    /\ UNCHANGED bridgeVars
    /\ UNCHANGED prefetchVars
    /\ UNCHANGED providerVars
    /\ UNCHANGED loopVars

\* The conversations trimConversationHistory is called on: the task, then
\* one assistant/user pair per turn already played.
ToolOnlyResponse == Resp(<<>>, <<Use("get_figma_data", ArgsA)>>)

TextAndToolResponse == Resp(<<MkText(BodyDoneMixed, 0, <<>>)>>, <<Use("get_figma_data", ArgsA)>>)

\* a tool-calling turn whose one result has `len` characters
ToolPair(resp, len) ==
    << ResponseMsg(resp, << <<1, 1>> >>),
       ResultsMsg(<< [id |-> <<1, 1>>, content |-> capToolResult(MkResult(len, "data"))] >>) >>

\* a turn of text only, answered by the continue guidance
TextPair(pad) ==
    << ResponseMsg(Resp(<<MkText(BodyWorking, pad, <<>>)>>, <<>>), <<>>),
       StringMsg("user", "guidance", GuidanceContinueLen) >>

\* answers from short to nearly the whole history budget
HistoryPads ==
    { 0, BigPad, MAX_HISTORY_CHARS - 800, MAX_HISTORY_CHARS - 700, MAX_HISTORY_CHARS - 600 }

Pairs ==
    { ToolPair(ToolOnlyResponse, 0), ToolPair(ToolOnlyResponse, 9000),
      ToolPair(TextAndToolResponse, 0) }
      \cup { TextPair(pad) : pad \in HistoryPads }

RECURSIVE Flatten(_)
Flatten(seqs) == IF seqs = <<>> THEN <<>> ELSE Head(seqs) \o Flatten(Tail(seqs))

Conversations ==
    { <<StringMsg("user", "task", PromptTaskLen)>> \o Flatten(ps) :
        ps \in UNION { [1..n -> Pairs] : n \in 1..(MaxTurnsBound - 1) } }

\* this.trimConversationHistory(), from the call to the return
TrimConversationHistory ==
    /\ pc = "trimConversationHistory"
    /\ conversationHistory' = trimConversationHistory(conversationHistory)
    /\ lastDrop' = Len(conversationHistory) - Len(conversationHistory')
    /\ pc' = "trimmed"
    /\ UNCHANGED << config, result >>
    /\ UNCHANGED bridgeVars
    /\ UNCHANGED prefetchVars
    /\ UNCHANGED providerVars
    /\ UNCHANGED parserVars
    /\ UNCHANGED << systemPrompt, userPrompt, turn, allWrittenFiles, previousToolCalls,
                    calledToolCategories, consecutiveDuplicates, blockedTools, pending,
                    llmCalls, offered, blockedAtCall, lastResponse, lastStep, invocations,
                    writeCalls, progress >>

\* one call of one of the three, on its argument
\* a second server that exposes a tool of the figma server under the same name
FigmaMirror == [name |-> "figma-mirror", tools |-> <<"get_figma_data", "get_figma_images">>,
                closes |-> "resolves"]

\* the server lists a McpBridge is constructed with
BridgeServerLists ==
    { s.servers : s \in { t \in ServerSetups : t.servers # <<>> } }
        \cup { <<FigmaServer, FigmaMirror>>, <<FigmaMirror, NaosServer>>,
               <<FigmaMirror, FigmaServer, NaosServer>> }

\* new McpBridge(servers, verbose)
NewMcpBridge ==
    /\ pc = "newMcpBridge"
    /\ mcpBridge' = TRUE
    /\ connectIdx' = 1
    /\ pc' = "connect"
    /\ UNCHANGED << config, result, clients, toolMap, tools, opened, closeAttempts >>
    /\ UNCHANGED prefetchVars
    /\ UNCHANGED providerVars
    /\ UNCHANGED loopVars
    /\ UNCHANGED parserVars

\* what executeLoop may hold when it trims: nothing yet, or a cached
\* result, a counter at the threshold and a blocked tool
LoopMemories ==
    { [cache |-> <<>>, dups |-> <<>>, blocked |-> {}],
      [cache |-> << [k |-> CallKey("get_figma_data", ArgsA), v |-> MkResult(300, "data")] >>,
       dups |-> << [k |-> "get_figma_data", v |-> MAX_CONSECUTIVE_DUPLICATES] >>,
       blocked |-> {"get_figma_data"}] }

EntryInit ==
    /\ \/ /\ pc = "new"
          /\ config \in NewConfigs
          /\ textArg = <<>>
          /\ conversationHistory = <<>>
          /\ LoopMemoryEmpty
       \/ /\ pc = "newMcpBridge"
          /\ config \in { [c EXCEPT !.servers = l] :
                            c \in { d \in Configs : d.maxTurns = 1 /\ d.servers = <<>> },
                            l \in BridgeServerLists }
          /\ textArg = <<>>
          /\ conversationHistory = <<>>
          /\ LoopMemoryEmpty
       \/ /\ pc = "parseCodeBlocks"
          /\ config \in { c \in Configs : c.maxTurns = 1 /\ c.servers = <<>> }
          /\ textArg \in Texts
          /\ conversationHistory = <<>>
          /\ LoopMemoryEmpty
       \/ /\ pc = "trimConversationHistory"
          /\ config \in { c \in Configs : c.maxTurns = 1 /\ c.servers = <<>> }
          /\ textArg = <<>>
          /\ conversationHistory \in Conversations
          /\ \E m \in LoopMemories :
                /\ previousToolCalls = m.cache
                /\ consecutiveDuplicates = m.dups
                /\ blockedTools = m.blocked
    /\ fenceMatches = <<>>
    /\ codeBlocks = <<>>
    /\ runCalls = NoRunCalls
    /\ FieldsIdle

EntryNext ==
    \/ Constructor
    \/ ParseCodeBlocks
    \/ TrimConversationHistory
    \/ NewMcpBridge
    \/ ConnectServer

EntrySpec == EntryInit /\ [][EntryNext]_vars

\* ------------------------------------------------------------------------
\* Two run() calls on one agent, interleaved at their awaits
\* ------------------------------------------------------------------------

RunIds == {1, 2}

singleCallVars ==
    << config, pc, result, textArg, fenceMatches, codeBlocks, bridgeVars, prefetchVars,
       providerVars, loopVars >>

InFlight(at) == at \notin {"idle", "ended", "connectFailed", "typeError"}

\* a turn of the conversation and the call that made it
TurnBy(r, role) == [by |-> r, role |-> role]

\* the finally block of run() up to `await this.mcpBridge.disconnect()`
EnterFinally(rc, r) ==
    IF rc.mcpBridge # 0
    THEN [rc EXCEPT !.closing[r] = rc.mcpBridge, !.at[r] = "disconnect"]
    ELSE [rc EXCEPT !.at[r] = "ended"]

\* the top of the while loop up to `await this.anthropic.messages.create`,
\* or the throw after the loop
NextTurn(rc, r) ==
    IF rc.turn[r] < config.maxTurns
    THEN [rc EXCEPT !.turn[r] = @ + 1, !.sent[r] = rc.conversationHistory,
                    !.at[r] = "llm"]
    ELSE EnterFinally(rc, r)

\* run() up to its first await
RunCall(r) ==
    /\ runCalls.at[r] = "idle"
    /\ runCalls' =
         LET started == [runCalls EXCEPT
                           !.overlapped = @ \/ InFlight(runCalls.at[3 - r])]
         IN  IF Len(config.servers) > 0
             THEN [started EXCEPT !.mcpBridge = r, !.at[r] = "connect"]
             ELSE [started EXCEPT !.at[r] = "prefetch"]
    /\ UNCHANGED singleCallVars

\* `await this.mcpBridge.connect()` resolves: the log line reads
\* this.mcpBridge, then prefetchData runs up to its first await
ConnectResolves(r) ==
    /\ runCalls.at[r] = "connect"
    /\ runCalls' =
         LET rc == [runCalls EXCEPT !.connected[r] = TRUE]
         IN  IF rc.mcpBridge = 0
             THEN [rc EXCEPT !.at[r] = "typeError"]
             ELSE [rc EXCEPT !.at[r] = "prefetch"]
    /\ UNCHANGED singleCallVars

\* `await this.mcpBridge.connect()` rejects: run() rejects before its try
ConnectRejects(r) ==
    /\ runCalls.at[r] = "connect"
    /\ runCalls' = [runCalls EXCEPT !.at[r] = "connectFailed"]
    /\ UNCHANGED singleCallVars

\* `this.prefetched = await this.prefetchData()`, then executeLoop up to
\* its first messages.create
PrefetchResolves(r) ==
    /\ runCalls.at[r] = "prefetch"
    /\ runCalls' =
         NextTurn([runCalls EXCEPT !.prefetched = r,
                                   !.conversationHistory = << TurnBy(r, "user") >>,
                                   !.turn[r] = 0], r)
    /\ UNCHANGED singleCallVars

\* messages.create settles with a completing response or rejects
LlmEndsRun(r) ==
    /\ runCalls.at[r] = "llm"
    /\ runCalls' = EnterFinally(runCalls, r)
    /\ UNCHANGED singleCallVars

\* messages.create resolves with no tool request and no completion phrase
LlmStalls(r) ==
    /\ runCalls.at[r] = "llm"
    /\ runCalls' =
         NextTurn([runCalls EXCEPT
                     !.conversationHistory =
                        @ \o << TurnBy(r, "assistant"), TurnBy(r, "user") >>], r)
    /\ UNCHANGED singleCallVars

\* messages.create resolves with a tool request: the response is pushed and
\* the request goes to this.mcpBridge, or to the mock layer when it is null
LlmRequestsTool(r) ==
    /\ runCalls.at[r] = "llm"
    /\ runCalls' =
         [runCalls EXCEPT !.conversationHistory = Append(@, TurnBy(r, "assistant")),
                          !.via[r] = runCalls.mcpBridge,
                          !.at[r] = "tools"]
    /\ UNCHANGED singleCallVars

\* `await Promise.all(...)` resolves: the results turn is pushed
ToolsResolve(r) ==
    /\ runCalls.at[r] = "tools"
    /\ runCalls' =
         NextTurn([runCalls EXCEPT
                     !.conversationHistory = Append(@, TurnBy(r, "user"))], r)
    /\ UNCHANGED singleCallVars

\* `await this.mcpBridge.disconnect()` resolves; this.mcpBridge = null
DisconnectResolves(r) ==
    /\ runCalls.at[r] = "disconnect"
    /\ runCalls' = [runCalls EXCEPT !.connected[runCalls.closing[r]] = FALSE,
                                    !.mcpBridge = 0,
                                    !.at[r] = "ended"]
    /\ UNCHANGED singleCallVars

RunTwiceInit ==
    /\ pc = "runTwice"
    /\ config \in { c \in Configs : c.maxTurns <= 2 }
    /\ textArg = <<>>
    /\ fenceMatches = <<>>
    /\ codeBlocks = <<>>
    /\ runCalls = NoRunCalls
    /\ Unstarted

RunTwiceNext ==
    \/ \E r \in RunIds : RunCall(r)
    \/ \E r \in RunIds : ConnectResolves(r)
    \/ \E r \in RunIds : ConnectRejects(r)
    \/ \E r \in RunIds : PrefetchResolves(r)
    \/ \E r \in RunIds : LlmEndsRun(r)
    \/ \E r \in RunIds : LlmStalls(r)
    \/ \E r \in RunIds : LlmRequestsTool(r)
    \/ \E r \in RunIds : ToolsResolve(r)
    \/ \E r \in RunIds : DisconnectResolves(r)

RunTwiceSpec == RunTwiceInit /\ [][RunTwiceNext]_vars

\* ------------------------------------------------------------------------
\* Properties
\* ------------------------------------------------------------------------

\* the key of a tool_use block of the conversation
KeyOf(u) == CallKey(u.name, u.input)

\* the response holds one of the completion phrases, in some letter case
HoldsCompletionPhrase(resp) ==
    FullText(resp.texts).body \in {BodyDoneUpper, BodyDoneMixed}

\* a step in which messages.create returned and the artifact writer did not fail
LlmAnswered ==
    /\ llmCalls' = llmCalls + 1
    /\ lastStep' \notin {"llmFailed", "writeFailed"}

\* C1: a tool request whose (name, arguments) key was handled in an earlier
\* turn gets the duplicate directive with an excerpt of the cached result
\* instead of a provider invocation, and over the whole run no key is
\* invoked more than once.
C1_OneInvocationPerKey ==
    /\ \A k \in 1..Len(invocations) : invocations[k].v <= 1
    /\ \A i, j \in 1..Len(conversationHistory) :
        ( /\ i < j
          /\ j < Len(conversationHistory)
          /\ conversationHistory[i].kind = "response"
          /\ conversationHistory[j].kind = "response" ) =>
            \A a \in 1..Len(conversationHistory[i].uses),
               b \in 1..Len(conversationHistory[j].uses) :
                KeyOf(conversationHistory[i].uses[a]) = KeyOf(conversationHistory[j].uses[b]) =>
                    LET first == conversationHistory[i + 1].results[a].content
                        later == conversationHistory[j + 1].results[b].content
                    IN  /\ later.tag = "dup"
                        /\ first.tag # "dup" =>
                              later.excerpt = Min(DUP_EXCERPT_CHARS, first.len)

\* C2: no tool that was blocked when messages.create was called is in the
\* tool schema of that call, whatever the schema was built from.
C2_BlockedToolNeverOffered ==
    offered # NoSchema =>
        \A i \in 1..Len(offered) : offered[i] \notin blockedAtCall

\* the turn of C3: an answered call without a completion phrase, with at
\* least one tool request, every request naming a tool already blocked
C3_AllBlockedTurn ==
    /\ LlmAnswered
    /\ ~HoldsCompletionPhrase(lastResponse')
    /\ Len(lastResponse'.uses) > 0
    /\ \A i \in 1..Len(lastResponse'.uses) : lastResponse'.uses[i].name \in blockedTools

WellFormed(h) ==
    /\ Len(h) >= 1
    /\ h[1].role = "user"
    /\ h[1].kind = "task"
    /\ \A i \in 1..(Len(h) - 1) : h[i].role # h[i + 1].role
    /\ h[Len(h)].role = "user"
    /\ \A i \in 1..Len(h) :
        (h[i].role = "assistant" /\ Len(h[i].uses) > 0) =>
            /\ i < Len(h)
            /\ h[i + 1].role = "user"
            /\ Len(h[i + 1].results) = Len(h[i].uses)
            /\ \A j \in 1..Len(h[i].uses) :
                  h[i + 1].results[j].tool_use_id = h[i].uses[j].id

\* C6: whenever messages.create is about to be called, the conversation it
\* is called with starts with the task message, alternates roles strictly,
\* ends with a user turn, and every assistant turn with tool requests is
\* followed at once by a user turn with one result per request, in order.
C6_ConversationWellFormed ==
    (pc = "loop" /\ turn < config.maxTurns) => WellFormed(Trimmed)

C6_Witness ==
    /\ pc = "loop"
    /\ turn < config.maxTurns
    /\ lastDrop > 0
    /\ \E i \in 1..Len(Trimmed) : Len(Trimmed[i].results) = 2

\* C7: when trimming removes anything, the first turn stays at index 0, the
\* number of removed turns is even, the removed turns are one block of whole
\* assistant/user pairs starting at index 1, and the last two turns stay.
C7_TrimRemovesOldestPairs ==
    /\ lastDrop % 2 = 0
    /\ (pc = "loop" /\ turn < config.maxTurns) =>
        LET h == conversationHistory
            d == Len(h) - Len(Trimmed)
        IN  d > 0 =>
              /\ Trimmed[1] = h[1]
              /\ d % 2 = 0
              /\ d <= Len(h) - 3
              /\ Trimmed = <<h[1]>> \o SubSeq(h, d + 2, Len(h))
              /\ \A i \in 1..d : h[i + 1].role = (IF i % 2 = 1 THEN "assistant" ELSE "user")

C7_Witness ==
    /\ pc = "loop"
    /\ turn < config.maxTurns
    /\ Len(Trimmed) < Len(conversationHistory)

C10_ConnectFailureStopsRun ==
    result.kind = "connectFailed" =>
        /\ pc = "done"
        /\ result.status = "error"
        /\ result.server = config.servers[connectIdx].name
        /\ prefetchCalls = <<>>
        /\ providerCalls = <<>>
        /\ llmCalls = 0
        /\ writeCalls = 0

C10_Witness ==
    /\ result.kind = "connectFailed"
    /\ connectIdx = 2
    /\ opened = {1}

\* C11: run() rejects only with a provider-connect failure or with the
\* turn-budget error; an error of the LLM backend call, an unparsable Figma
\* URL, an I/O error of the artifact writer and a failed tool invocation
\* never reach the caller.
C11_OnlyConnectAndBudgetErrors ==
    result.status = "error" => result.kind \in {"connectFailed", "maxTurns"}

\* the first client.callTool for a tool is the one prefetchData makes
PrefetchFailed(cat) ==
    /\ \E i \in 1..Len(prefetchCalls) : prefetchCalls[i] = cat.tool
    /\ ProviderReply(config.replies, cat.tool, 0).kind \in {"isError", "throw"}

\* C12: when the pre-fetch invocation of a category fails (the provider
\* reports an error or the call throws), that category stays null in the
\* pre-fetched context, nothing of the failure is embedded in the first
\* task message, and a failed Figma category leaves the run in tool-driven
\* mode (a tool schema is sent with messages.create).
C12_PrefetchFailureLeavesCategoryAbsent ==
    \A i \in 1..Len(PrefetchCategories) :
        PrefetchFailed(PrefetchCategories[i]) =>
            /\ result.kind # "prefetch"
            /\ prefetched[PrefetchCategories[i].field] = NULL
            /\ conversationHistory # <<>> =>
                  PrefetchCategories[i].field \notin userPrompt.embeds
            /\ (PrefetchCategories[i].field = "figmaData" /\ llmCalls > 0) =>
                  offered # NoSchema

\* pre-fetch produced non-empty Figma data
HasFigmaData ==
    /\ prefetched # NULL
    /\ prefetched.figmaData # NULL
    /\ prefetched.figmaData.len > 0

\* C13: when pre-fetch produced non-empty Figma data, every messages.create
\* call of the run is made without a tool schema, and the pre-fetched
\* context that decides the mode does not change once the turn loop has
\* started.
C13_PrefetchModeOffersNoTools ==
    /\ []((llmCalls > 0 /\ HasFigmaData) => offered = NoSchema)
    /\ [][conversationHistory # <<>> => prefetched' = prefetched]_vars

C13_Witness ==
    /\ HasFigmaData
    /\ prefetched.figmaData.tag = "truncated"
    /\ llmCalls >= 2
    /\ offered = NoSchema

\* C14: in prefetch mode, whatever the responses hold, the turn loop makes
\* no provider invocation and never runs the duplicate detection, the tool
\* blocking or the conversation rewrite.
C14_PrefetchModeRunsNoToolPath ==
    HasFigmaData =>
        /\ invocations = <<>>
        /\ pending = <<>>
        /\ consecutiveDuplicates = <<>>
        /\ blockedTools = {}
        /\ lastStep # "escalated"

\* a step in which McpBridge.callTool is called or one of its calls resolves
CallToolStep ==
    \/ prefetchCalls' # prefetchCalls
    \/ (mcpBridge /\ invocations' # invocations)
    \/ pc = "tools"

\* the error payload for a tool name the index does not hold: it names the
\* tool and lists the tools of the index
UnknownToolPayload(name) ==
    [ len |-> ErrorPayloadFixedLen + UnknownToolFixedLen + Len(name) + JoinedKeysLen(toolMap),
      tag |-> "error", excerpt |-> 0 ]

\* the error payload carrying the message of a failed provider call
FailurePayload(reply) ==
    [len |-> ErrorPayloadFixedLen + reply.len, tag |-> "error", excerpt |-> 0]

\* the result the turn holds for a request that callTool was called for
C15_ResultOf(slot, content) ==
    /\ ~MapHas(toolMap, slot.name) => content = UnknownToolPayload(slot.name)
    /\ (MapHas(toolMap, slot.name) /\ slot.reply.kind \in {"isError", "throw"}) =>
          content = FailurePayload(slot.reply)

\* C15: callTool never rejects (no call of it settles run()); for a name
\* that is not in the index it resolves to an error payload naming the tool
\* and listing the known tools, and no provider is contacted; for a provider
\* call that throws or reports an error it resolves to an error payload
\* carrying the message; and no call changes the bridge's tool index,
\* descriptor list or client set.
C15_CallToolNeverThrows ==
    /\ [][ CallToolStep =>
             /\ result' = result
             /\ toolMap' = toolMap
             /\ tools' = tools
             /\ clients' = clients ]_vars
    /\ [][ (pc = "tools" /\ pc' = "loop") =>
             \A j \in 1..Len(pending) :
                pending[j].reply # NoReply =>
                    C15_ResultOf(pending[j],
                        conversationHistory'[Len(conversationHistory')].results[j].content) ]_vars
    /\ [](mcpBridge => \A k \in 1..Len(providerCalls) : MapHas(toolMap, providerCalls[k].k))
    /\ [](\A i \in 1..Len(PrefetchCategories) :
            PrefetchFailed(PrefetchCategories[i]) =>
                prefetched[PrefetchCategories[i].field] =
                    FailurePayload(ProviderReply(config.replies, PrefetchCategories[i].tool, 0)))

C15_Witness ==
    /\ mcpBridge
    /\ pc = "loop"
    /\ \E i, j \in 1..(Len(conversationHistory) - 1) :
        /\ conversationHistory[i].kind = "response"
        /\ conversationHistory[j].kind = "response"
        /\ \E a \in 1..Len(conversationHistory[i].uses) :
            /\ ~MapHas(toolMap, conversationHistory[i].uses[a].name)
            /\ conversationHistory[i + 1].results[a].content =
                 UnknownToolPayload(conversationHistory[i].uses[a].name)
        /\ \E b \in 1..Len(conversationHistory[j].uses) :
            /\ MapHas(toolMap, conversationHistory[j].uses[b].name)
            /\ conversationHistory[j + 1].results[b].content = FailurePayload(IsErrorReply(20))

\* a request of the turn in flight whose provider call failed
FailedInvocation(slot) ==
    /\ slot.reply # NoReply
    /\ MapHas(toolMap, slot.name)
    /\ slot.reply.kind \in {"isError", "throw"}

\* the requests of a turn that client.callTool is called for, per tool name
ProviderRequests(slots, name) ==
    { j \in 1..Len(slots) :
        slots[j].name = name /\ slots[j].reply # NoReply /\ MapHas(toolMap, name) }

\* C16: a failed tool invocation does not end the run; its error payload
\* is the result of that request in the results turn; the provider is
\* called once for the request when it is dispatched and not again when
\* the failure arrives; and the next messages.create call has the results
\* turn as the last turn of its conversation.
C16_ToolFailureSurfacesOnce ==
    /\ [][ (pc = "tools" /\ pc' = "loop") =>
             /\ result' = NoResult
             /\ \A j \in 1..Len(pending) :
                  FailedInvocation(pending[j]) =>
                     LET last == conversationHistory'[Len(conversationHistory')]
                     IN  /\ Len(last.results) = Len(pending)
                         /\ last.results[j].tool_use_id = pending[j].id
                         /\ last.results[j].content = FailurePayload(pending[j].reply) ]_vars
    /\ [][ pc = "tools" => providerCalls' = providerCalls ]_vars
    /\ [][ (pc = "loop" /\ pc' = "tools") =>
             \A j \in 1..Len(pending') :
                MapCount(providerCalls', pending'[j].name)
                  - MapCount(providerCalls, pending'[j].name)
                  = Cardinality(ProviderRequests(pending', pending'[j].name)) ]_vars
    /\ []((pc = "loop" /\ lastStep = "tools" /\ turn < config.maxTurns) =>
            /\ Trimmed[Len(Trimmed)] = conversationHistory[Len(conversationHistory)]
            /\ Trimmed[Len(Trimmed)].kind = "results")

C16_Witness ==
    /\ pc = "loop"
    /\ lastStep = "tools"
    /\ turn < config.maxTurns
    /\ result = NoResult
    /\ \E j \in 1..Len(Trimmed[Len(Trimmed)].results) :
          Trimmed[Len(Trimmed)].results[j].content = FailurePayload(ThrowReply(20))

\* the results turn answers every request of the last response, in order
AnswersEveryRequest(msg, resp, t) ==
    /\ msg.kind = "results"
    /\ Len(msg.results) = Len(resp.uses)
    /\ \A j \in 1..Len(msg.results) :
          /\ msg.results[j].tool_use_id = <<t, j>>
          /\ msg.results[j].content.tag # "none"

\* C17: while an invocation of the turn is unresolved no messages.create
\* call is made and no results turn is in the conversation; when the last
\* one resolves, whatever the order of the completions, one results turn
\* holding a result for every request of the response is appended.
C17_ResultsTurnIsAtomic ==
    /\ [][ llmCalls' # llmCalls => (pc = "loop" /\ pending = <<>>) ]_vars
    /\ [](pc = "tools" =>
            /\ \E j \in 1..Len(pending) : pending[j].state = "pending"
            /\ Len(pending) = Len(lastResponse.uses)
            /\ conversationHistory[Len(conversationHistory)].kind = "response")
    /\ [][ (pc = "tools" /\ pc' = "loop") =>
             /\ Len(conversationHistory') = Len(conversationHistory) + 1
             /\ AnswersEveryRequest(conversationHistory'[Len(conversationHistory')],
                                    lastResponse, turn) ]_vars
    /\ []((pc = "loop" /\ lastStep = "tools") =>
            AnswersEveryRequest(conversationHistory[Len(conversationHistory)],
                                lastResponse, turn))

C17_Witness ==
    /\ pc = "loop"
    /\ lastStep = "tools"
    /\ Len(conversationHistory[Len(conversationHistory)].results) = 2
    /\ \E a, b \in 1..Len(previousToolCalls) :
          /\ a < b
          /\ previousToolCalls[a].k = CallKey("get_naos_component_docs", ArgsA)
          /\ previousToolCalls[b].k = CallKey("get_figma_data", ArgsB)

\* the absolute path p is the directory root or lies below it
IsInside(p, root) == Len(p) >= Len(root) /\ SubSeq(p, 1, Len(root)) = root

OutputRoot == pathResolve(config.outputPath.segs, <<>>)

\* C18: no file is ever written at a path outside the output root, also
\* not in a sibling directory whose name begins with the root's name; the
\* paths of a batch that lie inside the root are written although other
\* paths of the batch are rejected; and the result counts the written
\* paths.
C18_WritesStayInsideOutputRoot ==
    /\ \A i \in 1..Len(allWrittenFiles) : IsInside(allWrittenFiles[i], OutputRoot)
    /\ lastStep \in {"complete", "escalated", "tools", "stalled"} =>
          \A b \in 1..Len(FullText(lastResponse.texts).blocks) :
             LET fullPath == pathResolve(config.outputPath.segs,
                                         FullText(lastResponse.texts).blocks[b])
             IN  IsInside(fullPath, OutputRoot) =>
                    \E i \in 1..Len(allWrittenFiles) : allWrittenFiles[i] = fullPath
    /\ result.status = "complete" => result.files = Len(allWrittenFiles)

\* the response holds one tool request, with the given key
OnlyRequest(uses, key) == Len(uses) = 1 /\ KeyOf(uses[1]) = key

\* the first k turns of the run each committed a response whose only
\* request has the key of the first one
ScenarioC(k) ==
    /\ Len(conversationHistory) >= 1 + 2 * k
    /\ \A i \in 1..k :
          /\ conversationHistory[2 * i].kind = "response"
          /\ OnlyRequest(conversationHistory[2 * i].uses,
                         KeyOf(conversationHistory[2].uses[1]))

\* C19: with threshold 2, when the only request of turns 1, 2 and 3 is
\* tool X with the same arguments, turn 1 invokes X once, turns 2 and 3
\* answer with the duplicate directive without another invocation, X is
\* blocked from turn 3 on and not before, and a turn 4 with the same only
\* request is rewritten (synthetic assistant and redirect turns) instead of
\* being answered with a third directive.
C19_ScenarioC ==
    /\ \A k \in 1..3 :
        (pc = "loop" /\ turn = k /\ Len(conversationHistory) = 1 + 2 * k /\ ScenarioC(k)) =>
            LET X == conversationHistory[2].uses[1]
            IN  /\ MapCount(invocations, KeyOf(X)) = 1
                /\ conversationHistory[3].results[1].content.tag # "dup"
                /\ k >= 2 => conversationHistory[5].results[1].content.tag = "dup"
                /\ k = 3 => conversationHistory[7].results[1].content.tag = "dup"
                /\ (X.name \in blockedTools) <=> (k = 3)
    /\ ( /\ pc \in {"loop", "tools"}
         /\ turn = 4
         /\ ScenarioC(3)
         /\ OnlyRequest(lastResponse.uses, KeyOf(conversationHistory[2].uses[1])) ) =>
            /\ lastStep = "escalated"
            /\ pc = "loop"
            /\ Len(conversationHistory) = 9
            /\ conversationHistory[8].kind = "synthetic"
            /\ conversationHistory[9].kind = "redirect"
            /\ MapCount(invocations, KeyOf(conversationHistory[2].uses[1])) = 1

C19_Witness ==
    /\ mcpBridge
    /\ turn = 4
    /\ lastStep = "escalated"
    /\ ScenarioC(3)
    /\ conversationHistory[2].uses[1].name = "get_figma_data"
    /\ OnlyRequest(lastResponse.uses, KeyOf(conversationHistory[2].uses[1]))
    /\ MapCount(providerCalls, "get_figma_data") = 2

\* the first response holds 'WORKFLOW COMPLETE' and one fenced artifact
\* whose path lies inside the output root, and its turn ran to its end
ScenarioA ==
    /\ HasFigmaData
    /\ turn = 1
    /\ lastStep \notin {"none", "llmFailed", "writeFailed"}
    /\ FullText(lastResponse.texts).body = BodyDoneUpper
    /\ Len(FullText(lastResponse.texts).blocks) = 1
    /\ IsInside(pathResolve(config.outputPath.segs, FullText(lastResponse.texts).blocks[1]),
                OutputRoot)

StrategyPath(k, match) ==
    IF k = 1 THEN FilenameAttrPath(match.infoString)
    ELSE IF k = 2 THEN InfoStringPath(match.infoString)
    ELSE IF k = 3 THEN FirstLineCommentPath(match.content)
    ELSE PrecedingPath(textArg, match.index)

Succeeding(match) == { k \in 1..4 : StrategyPath(k, match) # NoPath }

\* the matches with a body that is not blank and a strategy that succeeds
RECURSIVE Kept(_)
Kept(matches) ==
    IF matches = <<>> THEN <<>>
    ELSE (IF trim(Head(matches).content) # <<>> /\ Succeeding(Head(matches)) # {}
          THEN <<Head(matches)>> ELSE <<>>) \o Kept(Tail(matches))

\* C21: every artifact carries the path of the first strategy, in the order
\* filename attribute, info string, first-line comment, preceding label,
\* that succeeds for its block; a text with one block for which exactly one
\* strategy succeeds yields exactly one artifact, with that strategy's path.
C21_FirstSucceedingStrategyNamesPath ==
    pc = "parsed" =>
        /\ Len(codeBlocks) = Len(Kept(fenceMatches))
        /\ \A i \in 1..Len(codeBlocks) :
              LET match == Kept(fenceMatches)[i]
                  first == Least(Succeeding(match))
              IN  /\ codeBlocks[i].filePath = trim(StrategyPath(first, match))
                  /\ \A k \in Succeeding(match) :
                        k > first /\ trim(StrategyPath(k, match)) # trim(StrategyPath(first, match))
                            => codeBlocks[i].filePath # trim(StrategyPath(k, match))
        /\ \A k \in 1..4 :
              (/\ Len(fenceMatches) = 1
               /\ trim(fenceMatches[1].content) # <<>>
               /\ Succeeding(fenceMatches[1]) = {k}) =>
                  /\ Len(codeBlocks) = 1
                  /\ codeBlocks[1].filePath = trim(StrategyPath(k, fenceMatches[1]))

\* a block for which the info string, the first-line comment and the
\* preceding label all name a path, and the artifact carries the first
C21_Witness ==
    /\ pc = "parsed"
    /\ Len(codeBlocks) >= 1
    /\ \E i \in 1..Len(fenceMatches) :
          /\ trim(fenceMatches[i].content) # <<>>
          /\ Succeeding(fenceMatches[i]) = {2, 3, 4}
          /\ StrategyPath(2, fenceMatches[i]) # StrategyPath(3, fenceMatches[i])
          /\ StrategyPath(2, fenceMatches[i]) # StrategyPath(4, fenceMatches[i])
          /\ codeBlocks[1].filePath = StrategyPath(2, fenceMatches[i])

\* the positions at which a line of the text starts (lines end in \n or \r\n)
LineStarts(t) == {1} \cup { i + 1 : i \in { j \in 1..Len(t) : t[j] = "\n" } }

\* the line that starts at s, without its line ending
LineAt(t, s) ==
    LET raw == SubSeq(t, s, s + RunLenNot(t, s, {"\n"}) - 1)
    IN  IF raw # <<>> /\ raw[Len(raw)] = "\r" THEN SubSeq(raw, 1, Len(raw) - 1) ELSE raw

\* a triple-backtick opening line, and a closing line of three backticks alone
IsOpeningLine(line) == StartsWith(line, Fence)
IsClosingLine(line) == line = Fence

\* where the line after the one starting at s starts
NextLine(t, s) == s + RunLenNot(t, s, {"\n"}) + 1

\* the fenced blocks of the text from line start s on: each opening line
\* with the first closing line after it
RECURSIVE FencedBlocks(_, _)
FencedBlocks(t, s) ==
    IF s > Len(t) THEN <<>>
    ELSE LET closings == { c \in LineStarts(t) : c > s /\ IsClosingLine(LineAt(t, c)) }
         IN  IF IsOpeningLine(LineAt(t, s)) /\ closings # {}
             THEN << [open |-> s, close |-> Least(closings)] >>
                  \o FencedBlocks(t, NextLine(t, Least(closings)))
             ELSE FencedBlocks(t, NextLine(t, s))

\* everything strictly between the opening and the closing line of a block
BodyOf(t, block) == SubSeq(t, NextLine(t, block.open), block.close - 1)

\* the opening line after the fence, the language tag and the blanks
MetadataOf(t, block) ==
    LET line == LineAt(t, block.open)
        lang == 1 + Len(Fence)
        gap == lang + RunLen(line, lang, WordChars)
    IN  SubSeq(line, gap + RunLen(line, gap, HorizontalSpace), Len(line))

AsMatch(t, block) ==
    [index |-> block.open, infoString |-> MetadataOf(t, block), content |-> BodyOf(t, block)]

\* the paths of the blocks that have a body and a path, in textual order
RECURSIVE ExpectedPaths(_, _)
ExpectedPaths(t, fenced) ==
    IF fenced = <<>> THEN <<>>
    ELSE (IF /\ trim(BodyOf(t, Head(fenced))) # <<>>
             /\ ResolvePath(t, AsMatch(t, Head(fenced))) # NoPath
          THEN << trim(ResolvePath(t, AsMatch(t, Head(fenced)))) >> ELSE <<>>)
         \o ExpectedPaths(t, Tail(fenced))

\* C22: parseCodeBlocks returns one artifact for each fenced block that has a
\* body that is not blank and a resolvable path, none for any other block,
\* in textual order; each content is right-trimmed and ends with one newline.
C22_OneArtifactPerLabelledBlock ==
    pc = "parsed" =>
        /\ [i \in 1..Len(codeBlocks) |-> codeBlocks[i].filePath]
              = ExpectedPaths(textArg, FencedBlocks(textArg, 1))
        /\ \A i \in 1..Len(codeBlocks) :
              LET content == codeBlocks[i].content
              IN  /\ content # <<>>
                  /\ content[Len(content)] = "\n"
                  /\ trimEnd(content) \o <<"\n">> = content

C26_ConstructorNeedsApiKey ==
    /\ pc = "threw" => ~Truthy(config.anthropicApiKey)
    /\ (pc = "init" /\ config \in NewConfigs) =>
          /\ Truthy(config.anthropicApiKey)
          /\ ~mcpBridge
          /\ clients = <<>>
          /\ opened = {}
          /\ llmCalls = 0
          /\ conversationHistory = <<>>
    /\ pc # "new" => (pc = "threw" <=> config.anthropicApiKey \in {NULL, EmptyKey})

C26_Witness ==
    /\ pc = "threw"
    /\ config.anthropicApiKey = EmptyKey

\* the tool names a caller may ask for: the discovered ones and one more
RequestedNames == {"get_figma_data", "get_naos_component_docs", "figma"}

\* C24: disconnect() calls close on every connected client and settles
\* without error whichever of the closes reject; afterwards the bridge holds
\* no client and no tool descriptor, and callTool for any name returns the
\* unknown-tool payload without reaching a provider.
C24_DisconnectClearsBridge ==
    [][ (pc = "finally" /\ mcpBridge) =>
           /\ \A i \in 1..Len(clients) :
                 MapCount(closeAttempts', clients[i].v) = MapCount(closeAttempts, clients[i].v) + 1
           /\ result' = result
           /\ pc' = "done"
           /\ clients' = <<>>
           /\ toolMap' = <<>>
           /\ tools' = <<>>
           /\ \A name \in RequestedNames, reply \in {DefaultReply, IsErrorReply(20)} :
                 /\ ~ReachesProvider(name, toolMap', clients')
                 /\ callTool(name, toolMap', clients', reply)
                       = ErrorPayload(UnknownToolFixedLen + Len(name)) ]_vars

\* a run over two connections has ended, the close of one of them rejected
C24_Witness ==
    /\ pc = "done"
    /\ Cardinality(opened) = 2
    /\ \E c \in opened : config.servers[c].closes = "rejects" /\ MapCount(closeAttempts, c) = 1
    /\ \E c \in opened : config.servers[c].closes = "resolves" /\ MapCount(closeAttempts, c) = 1
    /\ clients = <<>>
    /\ result.status = "complete"

\* the LLM call of turn t returned
Answered(t) == t \in 1..turn /\ ~(t = turn /\ lastStep = "llmFailed")

\* C25: for every turn whose LLM call returned the callback received a
\* 'running' event before the call and then a 'running' event with the
\* response text and tool calls; turn numbers start at 1 and go up by 1; a
\* 'complete' event comes once, last, exactly when run() returns a result.
C25_ProgressEventsPerTurn ==
    /\ \A t \in 1..turn :
          Answered(t) =>
              \E i, j \in 1..Len(progress) :
                  /\ i < j
                  /\ progress[i] = TurnStarted(t)
                  /\ progress[j].turn = t
                  /\ progress[j].status = "running"
                  /\ progress[j].message = "fullText"
                  /\ t = turn =>
                        progress[j] = TurnAnswered(t, lastResponse)
    /\ progress # <<>> => progress[1] = TurnStarted(1)
    /\ \A i \in 1..(Len(progress) - 1) :
          progress[i + 1].turn \in { progress[i].turn, progress[i].turn + 1 }
    /\ \A i \in 1..Len(progress) :
          progress[i].status = "complete" => i = Len(progress)
    /\ pc = "done" =>
          (result.status = "complete"
              <=> (progress # <<>> /\ progress[Len(progress)].status = "complete"))
    /\ result.status = "error" =>
          \A i \in 1..Len(progress) : progress[i].status # "complete"

\* C27: with a bridge connected, two requests of one response with the same
\* tool name and the same arguments lead to one invocation for their key,
\* and the second of them is answered with the duplicate directive.
C27_SameTurnDuplicateInvokedOnce ==
    \A a, b \in 1..Len(lastResponse.uses) :
        ( /\ a < b
          /\ KeyOf(lastResponse.uses[a]) = KeyOf(lastResponse.uses[b])
          /\ Len(config.servers) > 0
          /\ lastStep = "tools" ) =>
            /\ MapCount(invocations, KeyOf(lastResponse.uses[a])) <= 1
            /\ pc = "loop" =>
                  conversationHistory[Len(conversationHistory)].results[b].content.tag = "dup"

\* C28: after trimConversationHistory has run on a conversation whose estimate
\* exceeds MAX_HISTORY_CHARS, either estimateHistoryChars of what remains is at
\* most the cap, or exactly the first turn and the last two turns remain.
C28_TrimmedEstimateWithinCapOrMinimal ==
    [][ (pc = "trimConversationHistory"
           /\ estimateHistoryChars(conversationHistory) > MAX_HISTORY_CHARS) =>
          \/ estimateHistoryChars(conversationHistory') <= MAX_HISTORY_CHARS
          \/ conversationHistory' =
               <<conversationHistory[1]>>
                 \o SubSeq(conversationHistory, Len(conversationHistory) - 1,
                           Len(conversationHistory)) ]_vars


\* C29: in every run the three mode-dependent choices agree. When the
\* pre-fetched Figma data is non-empty, the system prompt is the short
\* prefetch one, the first task message embeds the data and says not to call
\* tools, and messages.create gets no tool schema; in every other run the
\* system prompt is the full tool-calling one, the first task message is the
\* tool-oriented one and a tool schema is passed.
C29_ModeChoicesAgree ==
    llmCalls > 0 =>
        IF prefetched # NULL /\ Truthy(prefetched.figmaData)
        THEN /\ systemPrompt = "prefetched"
             /\ userPrompt.closing = "task-no-tools"
             /\ "figmaData" \in userPrompt.embeds
             /\ offered = NoSchema
        ELSE /\ systemPrompt = "agentic"
             /\ userPrompt.closing = "execute-workflow"
             /\ userPrompt.embeds = {}
             /\ offered # NoSchema

\* the tool names a response of the model may request
RequestableNames ==
    UNION { { r.uses[i].name : i \in 1..Len(r.uses) } : r \in ToolResponses }

\* the requests dispatched by the step: those of the response just received
Dispatched == IF llmCalls' = llmCalls + 1 /\ lastStep' = "tools" THEN lastResponse'.uses ELSE <<>>

RequestKey(uses, i) == CallKey(uses[i].name, uses[i].input)

\* request i of the step finds its key in previousToolCalls: cached by an
\* earlier turn or, without a bridge, by an earlier request of the same turn
CacheHit(uses, i) ==
    \/ MapHas(previousToolCalls, RequestKey(uses, i))
    \/ ~mcpBridge /\ \E j \in 1..(i - 1) : RequestKey(uses, j) = RequestKey(uses, i)

\* the duplicates for `name` since its most recent fresh request, once the
\* first `upTo` requests of the step are counted in
DuplicatesSinceFresh(uses, name, upTo) ==
    LET mine == { i \in 1..upTo : uses[i].name = name }
        fresh == { i \in mine : ~CacheHit(uses, i) }
    IN  IF fresh = {}
        THEN MapCount(consecutiveDuplicates, name) + Cardinality(mine)
        ELSE Cardinality({ i \in mine : \A f \in fresh : i > f })

\* C30: for each tool name, the consecutive-duplicate counter equals the
\* number of duplicate (cache-hit) requests for that tool since its most
\* recent fresh (cache-miss) request; requests for other tools leave it
\* alone; the tool enters the blocked set exactly when its counter reaches
\* MAX_CONSECUTIVE_DUPLICATES; and the blocked set never loses a member,
\* even when a later fresh request resets the tool's counter to 0.
C30_CounterCountsDuplicatesSinceFresh ==
    /\ consecutiveDuplicates = <<>> /\ blockedTools = {}
    /\ [][ IF Dispatched = <<>>
           THEN UNCHANGED << consecutiveDuplicates, blockedTools >>
           ELSE /\ blockedTools \subseteq blockedTools'
                /\ \A name \in RequestableNames :
                     LET mine == { i \in 1..Len(Dispatched) : Dispatched[i].name = name }
                     IN  /\ MapCount(consecutiveDuplicates', name) =
                               DuplicatesSinceFresh(Dispatched, name, Len(Dispatched))
                         /\ mine = {} =>
                               MapCount(consecutiveDuplicates', name)
                                 = MapCount(consecutiveDuplicates, name)
                         /\ (name \in blockedTools' \ blockedTools) <=>
                               /\ name \notin blockedTools
                               /\ \E i \in mine :
                                     /\ CacheHit(Dispatched, i)
                                     /\ DuplicatesSinceFresh(Dispatched, name, i)
                                          = MAX_CONSECUTIVE_DUPLICATES ]_vars

\* a blocked tool whose counter a fresh request has reset
C30_Witness ==
    \E name \in RequestableNames :
        /\ name \in blockedTools
        /\ MapHas(consecutiveDuplicates, name)
        /\ MapCount(consecutiveDuplicates, name) = 0

\* C31: whenever the escalation fires, the synthetic user turn forbids by
\* name every tool that is in the blocked set at that moment, and the tools
\* it names as the expected next step are all tools that are not blocked.
C31_RedirectNamesBlockedTools ==
    [][ (llmCalls' = llmCalls + 1 /\ lastStep' = "escalated") =>
          LET redirect == conversationHistory'[Len(conversationHistory')]
          IN  /\ redirect.kind = "redirect"
              /\ blockedTools \subseteq redirect.forbids
              /\ redirect.expects \cap blockedTools = {} ]_vars

\* C32: on a turn with no tool request and no completion phrase, exactly one
\* user turn is appended after the committed assistant turn, and its
\* guidance is the 'N files generated so far' one if at least one file has
\* been written in the run; otherwise the phase-2 one when only figma has
\* been used, the phase-3 one when figma and naos have been used, and the
\* generic continue message when no category has been used.
C32_StallGuidanceSelection ==
    [][ (llmCalls' = llmCalls + 1 /\ lastStep' = "stalled") =>
          LET n == Len(Trimmed)
              h == conversationHistory'
          IN  /\ Len(h) = n + 2
              /\ SubSeq(h, 1, n) = Trimmed
              /\ h[n + 1] = ResponseMsg(lastResponse', <<>>)
              /\ h[n + 2].role = "user"
              /\ h[n + 2].kind = "guidance"
              /\ IF Len(allWrittenFiles') > 0 THEN h[n + 2].guidance = "files"
                 ELSE IF calledToolCategories = {"figma"} THEN h[n + 2].guidance = "phase2"
                 ELSE IF calledToolCategories = {"figma", "naos"}
                      THEN h[n + 2].guidance = "phase3"
                 ELSE calledToolCategories = {} => h[n + 2].guidance = "continue" ]_vars

\* C32 as the code selects: the phase-2 guidance when figma has been used
\* and naos has not, whether or not files were written; otherwise the
\* phase-3 guidance when both have been used and no file was written;
\* otherwise the 'N files generated so far' guidance when a file was
\* written; otherwise the generic continue message.
C32_StallGuidanceCategoryFirst ==
    [][ (llmCalls' = llmCalls + 1 /\ lastStep' = "stalled") =>
          LET n == Len(Trimmed)
              h == conversationHistory'
              cats == calledToolCategories
              written == Len(allWrittenFiles')
          IN  /\ Len(h) = n + 2
              /\ SubSeq(h, 1, n) = Trimmed
              /\ h[n + 1] = ResponseMsg(lastResponse', <<>>)
              /\ h[n + 2].role = "user"
              /\ h[n + 2].kind = "guidance"
              /\ h[n + 2].guidance =
                    IF "figma" \in cats /\ "naos" \notin cats THEN "phase2"
                    ELSE IF "figma" \in cats /\ "naos" \in cats /\ written = 0
                    THEN "phase3"
                    ELSE IF written > 0 THEN "files"
                    ELSE "continue" ]_vars

\* a stall after files were written with only figma used
C32_Witness ==
    /\ lastStep = "stalled"
    /\ calledToolCategories = {"figma"}
    /\ Len(allWrittenFiles) > 0
    /\ conversationHistory[Len(conversationHistory)].kind = "guidance"
    /\ conversationHistory[Len(conversationHistory)].guidance = "phase2"

\* connect() has returned: every configured server is connected and discovered
Connected ==
    /\ mcpBridge
    /\ pc \notin {"newMcpBridge", "connect"}
    /\ result = NoResult
    /\ Len(config.servers) > 0
    /\ opened = 1..Len(config.servers)

\* C33: after connect(), no two descriptors of getTools() have the same
\* name, and callTool(name, args) is routed to the server recorded as owner
\* in the descriptor for that name, also when two servers expose a tool with
\* the same name.
C33_UniqueNamesRoutedToOwner ==
    Connected =>
        /\ \A i, j \in 1..Len(tools) : tools[i].name = tools[j].name => i = j
        /\ \A i \in 1..Len(tools) :
              /\ MapHas(toolMap, tools[i].name)
              /\ MapGet(toolMap, tools[i].name) = tools[i].serverName

\* the steps of run() before executeLoop is entered
BeforeLoop == {"init", "connect", "prefetch", "prefetching"}

\* C34: every pre-fetch invocation happens after all servers have connected
\* and before the first LLM call; each anticipated tool is invoked at most
\* once in pre-fetch and only if it is in the discovered tool list; without
\* a bridge there is no pre-fetch invocation; and the pre-fetched context is
\* not modified once the turn loop has started.
C34_PrefetchOnceBeforeFirstCall ==
    /\ prefetchCalls = <<>>
    /\ [][/\ prefetchCalls' # prefetchCalls =>
                /\ Len(prefetchCalls') = Len(prefetchCalls) + 1
                /\ SubSeq(prefetchCalls', 1, Len(prefetchCalls)) = prefetchCalls
                /\ LET t == prefetchCalls'[Len(prefetchCalls')]
                   IN  /\ t \in {"get_figma_data", "get_naos_component_docs",
                                  "get_naos_design_tokens"}
                       /\ \A i \in 1..Len(prefetchCalls) : prefetchCalls[i] # t
                       /\ \E i \in 1..Len(tools) : tools[i].name = t
                /\ mcpBridge
                /\ Len(config.servers) > 0
                /\ opened = 1..Len(config.servers)
                /\ pc # "connect"
                /\ llmCalls = 0 /\ llmCalls' = 0
          /\ (config.servers = <<>> \/ ~mcpBridge) => prefetchCalls' = <<>>
          /\ pc \notin BeforeLoop => /\ prefetched' = prefetched
                                     /\ prefetchCalls' = prefetchCalls ]_vars

\* a run with both servers has pre-fetched from each and called the LLM
C34_Witness ==
    /\ prefetchCalls = <<"get_figma_data", "get_naos_component_docs">>
    /\ Len(config.servers) = 2
    /\ llmCalls >= 1
    /\ prefetched.figmaData # NULL

\* C35: on every turn whose response holds artifacts, they are handed to
\* the writer during that turn, before the completion check and before any
\* tool processing: the files are written on a completing turn, on a stall
\* turn, on a tool turn and on an escalated turn; a rejected write ends the
\* turn with no completion and no tool invocation; and the files written on
\* earlier turns stay written when the run fails with turn-budget
\* exhaustion.
C35_ArtifactsWrittenEveryTurn ==
    [][ /\ (llmCalls' = llmCalls + 1 /\ lastStep' # "llmFailed") =>
              LET resp == lastResponse'
                  written == writeCodeBlocks(FullText(resp.texts).blocks,
                                             config.outputPath.segs)
              IN  /\ lastStep' \in {"complete", "stalled", "escalated", "tools",
                                     "writeFailed"}
                  /\ writeCalls' = writeCalls + (IF HasFiles(resp) THEN 1 ELSE 0)
                  /\ lastStep' # "writeFailed" =>
                        allWrittenFiles' = allWrittenFiles \o written
                  /\ lastStep' = "writeFailed" =>
                        /\ HasFiles(resp)
                        /\ result'.status # "complete"
                        /\ invocations' = invocations
                        /\ providerCalls' = providerCalls
                        /\ conversationHistory' = Trimmed
        /\ llmCalls' = llmCalls =>
              /\ allWrittenFiles' = allWrittenFiles
              /\ writeCalls' = writeCalls ]_vars

\* a run whose last turn stalled and wrote a file, and then ran out of turns
C35_Witness ==
    /\ result.kind = "maxTurns"
    /\ lastStep = "stalled"
    /\ HasFiles(lastResponse)
    /\ writeCalls >= 2
    /\ Len(allWrittenFiles) >= 2

\* what C36 says of one call of run(): the messages it sends to the LLM
\* were all made by it, starting with a one-turn conversation, and the
\* bridge it created is the agent's bridge and connected while it runs
Isolated(r) ==
    LET rc == runCalls
        bridged == Len(config.servers) > 0
    IN  /\ rc.at[r] # "typeError"
        /\ rc.at[r] = "llm" =>
              /\ \A i \in 1..Len(rc.sent[r]) : rc.sent[r][i].by = r
              /\ rc.turn[r] = 1 => Len(rc.sent[r]) = 1
        /\ (bridged /\ rc.at[r] \in {"prefetch", "llm", "tools"}) =>
              /\ rc.connected[r]
              /\ rc.mcpBridge = r
        /\ rc.at[r] = "tools" => rc.via[r] = IF bridged THEN r ELSE 0
        /\ rc.at[r] = "disconnect" => rc.closing[r] = r

\* C36: the conversation and the bridge connection of one run are never
\* read or modified by another run, neither when the second run() starts
\* after the first has ended nor when the two overlap in time.
C36_RunsAreIsolated == \A r \in RunIds : Isolated(r)

\* the cache holds an error payload for the key
CachedError(callKey) ==
    /\ MapHas(previousToolCalls, callKey)
    /\ MapGet(previousToolCalls, callKey).tag = "error"

\* the awaited call of slot i of the turn in flight resolves in this step
Resolves(i) ==
    /\ pc = "tools"
    /\ pending[i].state = "pending"
    /\ pending' = <<>> \/ pending'[i].state = "done"

\* the result given for request i of the response just received
AnswerTo(i) ==
    IF pc' = "tools" THEN pending'[i].content
    ELSE conversationHistory'[Len(conversationHistory')].results[i].content

\* C37: the error payload of a failed tool invocation is stored in the
\* duplicate-call cache like a successful result; every later request with
\* the same tool name and arguments is answered with the duplicate
\* directive, is not invoked again and does not reach the provider, and
\* increments the tool's consecutive-duplicate counter toward blocking.
C37_ErrorPayloadIsCached ==
    /\ [][ pc = "tools" =>
             \A i \in 1..Len(pending) :
                LET rawResult == callTool(pending[i].name, toolMap, clients,
                                          pending[i].reply)
                IN  (Resolves(i) /\ rawResult.tag = "error") =>
                       /\ MapHas(previousToolCalls', pending[i].key)
                       /\ MapGet(previousToolCalls', pending[i].key) = rawResult ]_vars
    /\ [][ \A e \in 1..Len(previousToolCalls) :
             previousToolCalls[e].v.tag = "error" =>
                /\ MapHas(previousToolCalls', previousToolCalls[e].k)
                /\ MapCount(invocations', previousToolCalls[e].k)
                     = MapCount(invocations, previousToolCalls[e].k) ]_vars
    /\ [][ IF Dispatched = <<>> THEN TRUE
           ELSE \A i \in 1..Len(Dispatched) :
                  LET name == Dispatched[i].name
                      callKey == RequestKey(Dispatched, i)
                      mine == { j \in 1..Len(Dispatched) : Dispatched[j].name = name }
                  IN  CachedError(callKey) =>
                        /\ AnswerTo(i) = DuplicateDirective(name,
                                             MapGet(previousToolCalls, callKey))
                        /\ MapCount(consecutiveDuplicates', name) >= 1
                        /\ (\A j \in mine : CachedError(RequestKey(Dispatched, j))) =>
                              /\ MapCount(consecutiveDuplicates', name)
                                   = MapCount(consecutiveDuplicates, name)
                                       + Cardinality(mine)
                              /\ MapCount(providerCalls', name)
                                   = MapCount(providerCalls, name)
                        /\ MapCount(consecutiveDuplicates', name)
                              >= MAX_CONSECUTIVE_DUPLICATES => name \in blockedTools' ]_vars

\* a tool blocked by repeating a request whose cached result is an error payload
C37_Witness ==
    /\ lastStep = "tools"
    /\ pc = "loop"
    /\ \E i \in 1..Len(lastResponse.uses) :
          LET name == lastResponse.uses[i].name
              callKey == RequestKey(lastResponse.uses, i)
              last == conversationHistory[Len(conversationHistory)]
          IN  /\ CachedError(callKey)
              /\ name \in blockedTools
              /\ MapCount(invocations, callKey) = 1
              /\ last.kind = "results"
              /\ last.results[i].content.tag = "dup"

\* C38: blocking a tool does not stop it from being executed. On a turn
\* that reaches tool processing, the escalation fires exactly when every
\* request names a blocked tool; when a blocked tool is requested together
\* with a non-blocked one the response is committed to history and the
\* blocked tool's request is processed like any other: invoked when its
\* arguments are not cached, answered with the duplicate directive otherwise.
C38_BlockedToolStillExecuted ==
    [][ (llmCalls' = llmCalls + 1 /\ lastStep' \in {"tools", "escalated"}) =>
          LET uses == lastResponse'.uses
              blockedReqs == { i \in 1..Len(uses) : uses[i].name \in blockedTools }
              n == Len(Trimmed)
          IN  /\ Len(uses) > 0
              /\ lastStep' = "escalated" <=> blockedReqs = 1..Len(uses)
              /\ lastStep' = "tools" =>
                    /\ Len(conversationHistory') > n
                    /\ conversationHistory'[n + 1].kind = "response"
                    /\ conversationHistory'[n + 1].uses
                         = ToolUseBlocks(lastResponse',
                                         [i \in 1..Len(uses) |-> <<turn', i>>])
                    /\ \A i \in blockedReqs :
                         LET callKey == RequestKey(uses, i)
                         IN  IF CacheHit(uses, i)
                             THEN /\ AnswerTo(i) = DuplicateDirective(uses[i].name,
                                                      MapGet(previousToolCalls', callKey))
                                  /\ MapCount(invocations', callKey)
                                       = MapCount(invocations, callKey)
                                           + Cardinality({ j \in 1..Len(uses) :
                                                 /\ RequestKey(uses, j) = callKey
                                                 /\ ~CacheHit(uses, j) })
                             ELSE /\ MapCount(invocations', callKey)
                                       > MapCount(invocations, callKey)
                                  /\ mcpBridge => /\ pc' = "tools"
                                                  /\ pending'[i].state = "pending"
                                                  /\ ReachesProvider(uses[i].name, toolMap,
                                                                      clients)
                                                       => MapCount(providerCalls', uses[i].name)
                                                            > MapCount(providerCalls,
                                                                       uses[i].name)
                                  /\ ~mcpBridge =>
                                        AnswerTo(i) = capToolResult(
                                                        simulateToolResult(uses[i].name)) ]_vars

\* a turn that requested a blocked tool, whose arguments were cached, together
\* with a tool that was not blocked
C38_Witness ==
    /\ lastStep = "tools"
    /\ pc = "loop"
    /\ \E i, j \in 1..Len(lastResponse.uses) :
          /\ lastResponse.uses[i].name \in blockedAtCall
          /\ lastResponse.uses[j].name \notin blockedAtCall
          /\ conversationHistory[Len(conversationHistory)].kind = "results"
          /\ conversationHistory[Len(conversationHistory)].results[i].content.tag = "dup"
          /\ MapCount(invocations, RequestKey(lastResponse.uses, i)) >= 1

\* the turns of s are turns of t, in the order they have in t
RECURSIVE IsSubsequence(_, _)
IsSubsequence(s, t) ==
    IF s = <<>> THEN TRUE
    ELSE IF t = <<>> THEN FALSE
    ELSE IF Head(s) = Head(t) /\ IsSubsequence(Tail(s), Tail(t)) THEN TRUE
    ELSE IsSubsequence(s, Tail(t))

\* C39: when the estimated conversation size is at most the global cap,
\* trimConversationHistory leaves the conversation unchanged; and in every
\* case the turns it keeps have the content and the relative order they
\* had, and the duplicate-call cache, the counters and the blocked set are
\* as they were.
C39_TrimKeepsTurnsAndMemory ==
    [][ (pc = "trimConversationHistory" /\ pc' = "trimmed") =>
          /\ estimateHistoryChars(conversationHistory) <= MAX_HISTORY_CHARS =>
                conversationHistory' = conversationHistory
          /\ IsSubsequence(conversationHistory', conversationHistory)
          /\ previousToolCalls' = previousToolCalls
          /\ consecutiveDuplicates' = consecutiveDuplicates
          /\ blockedTools' = blockedTools ]_vars

\* a trim that removed turns while the cache and the blocked set were in use
C39_Witness ==
    /\ pc = "trimmed"
    /\ lastDrop > 0
    /\ Len(conversationHistory) >= 3
    /\ previousToolCalls # <<>>
    /\ blockedTools # {}

====
